---- MODULE Spec2Model ----
(***************************************************************************)
(* Model of RepoPerformanceEval:                                           *)
(*   - the job coordinator of analytics/views.py (worker thread            *)
(*     _run_miner_and_upload, SSE generator stream_progress.gen),          *)
(*   - the rate-limited fetcher _get of analytics/services/github_ci.py,   *)
(*   - the coverage scanner fetch_workflow_runs_covering and the per-SHA   *)
(*     index summarize_runs_by_sha of the same file,                       *)
(*   - compute_average_streak (both copies) and main() of the miner,       *)
(*     analytics/services/miner.py.                                        *)
(*   - main() composed with the two scans it calls (SpecPipeline),         *)
(*   - two jobs side by side, with their miner processes (SpecConc),       *)
(*   - one job with two stream_progress readers (SpecReaders).             *)
(* Each part has its own specification (Spec, SpecReaders, SpecGet,        *)
(* SpecScan, SpecSum, SpecStreak, SpecMiner, SpecPipeline, SpecConc); the  *)
(* variables of the other parts stay at their initial values.              *)
(***************************************************************************)
EXTENDS Integers, Sequences, FiniteSets, TLC

VARIABLES
    \* ---- JOBS[job_id] (views.py:155-160)
    q,                  \* JOBS[job_id]["q"]: the queue.Queue of progress lines
    done,               \* JOBS[job_id]["done"]
    ok,                 \* JOBS[job_id]["ok"]: None, "True" or "False"
    public_url,         \* JOBS[job_id]["public_url"]: None or a URL
    \* ---- the worker thread _run_miner_and_upload (views.py:170-232)
    wpc,                \* the statement the worker is at
    code,               \* the local `code`: <<>> before proc.wait(), then <<exit code>>
    candidate_exists,   \* candidate1.exists(): None before it is evaluated, then "True"/"False"
    url_local,          \* the local `public_url` returned by upload_json_to_supabase
    nlines,             \* number of lines read from proc.stdout so far
    \* ---- the collaborators' observable effects
    upload_attempted,   \* upload_json_to_supabase was called
    analyses,           \* Analysis rows created (their json_url)
    emitted,            \* every line ever put on the queue, in put order (history)
    done_at,            \* Len(emitted) at the moment done became True, -1 before (history)
    \* ---- the readers: one generator gen() per stream_progress request
    rpc,                \* reader id -> the statement the generator is at
    events,             \* reader id -> the events the generator has yielded
    \* ---- _get (github_ci.py:56-77)
    gpc,                \* "loop", "returned" or "raised"
    max_retries,        \* the parameter max_retries
    gi,                 \* the loop variable i: iterations of the for loop started
    gnow,               \* int(time.time())
    grequests,          \* number of requests.get calls made
    gstatuses,          \* the status codes of the responses received, in order
    gsleeps,            \* the time.sleep calls made, in order: [kind, secs, attempt]
    gresult,            \* <<>> while nothing is returned (or None is), else <<response>>
    gcause,             \* why the call raised, or None
    \* ---- fetch_workflow_runs_covering (github_ci.py:83-145)
    spc,                \* "loop", "runs", "endpage", "returned", "raised"
    target_shas,        \* the parameter target_shas
    hard_page_cap,      \* the parameter hard_page_cap
    cutoff_dt,          \* the parameter cutoff_dt
    page,               \* the local `page`
    all_runs,           \* the local `all_runs`
    covered,            \* the local `covered`
    runs,               \* the local `runs`: the page being processed
    ridx,               \* position of the for loop over `runs`
    oldest,             \* the local `oldest`: <<>> for None, else <<datetime>>
    requested,          \* the page numbers requested from the provider, in order
    stop_reason,        \* why the while loop ended, None while it runs
    \* ---- summarize_runs_by_sha (github_ci.py:148-202)
    sumpc,              \* "loop" or "returned"
    workflow_runs,      \* the parameter workflow_runs
    sumidx,             \* position of the for loop over workflow_runs
    by_sha,             \* the local `by_sha`: SHA -> summary
    \* ---- compute_average_streak (miner.py:67-83)
    stpc,               \* "start", "loop" or "returned"
    unique_dates_sorted,\* the parameter: dates as day numbers
    sti,                \* the loop variable i
    streaks,            \* the local `streaks`
    current_streak,     \* the local `current_streak`
    sresult,            \* <<>> before the return, then the quotient <<sum, len>>
    \* ---- the miner process, main() (miner.py:89-506)
    mpc,                \* the phase main() is in
    commits,            \* the commits Repository(dest, since=...) traverses, in order
    total_commits,      \* the local `total_commits`
    miner_target_shas,  \* the local `target_shas` of main()
    push_runs,          \* the local `push_runs`
    pr_runs,            \* the local `pr_runs`
    ci_runs,            \* the local `ci_runs`
    ci_index,           \* the local `ci_index`
    ci_covered_commits, \* the local `ci_covered_commits`
    ci_coverage_ratio,  \* the local `ci_coverage_ratio`: <<>> until set, then a quotient
    cidx,               \* position of the pass-2 loop over the commits
    authors,            \* the local `authors`: the buckets in insertion order
    run_i,              \* position of the repo-level loop over ci_runs
    ci_status_totals,   \* the local `ci_status_totals` (a Counter)
    results,            \* the local `results`
    written,            \* analytics.json: <<>> while absent, else <<the report>>
    exit_code,          \* <<>> while main() runs, then <<the exit code of the process>>
    repo_total_insertions,  \* the local `repo_total_insertions`
    repo_total_deletions,   \* the local `repo_total_deletions`
    \* ---- main() calling fetch_workflow_runs_covering (miner.py:217-242)
    push_covered,       \* the local `push_covered`
    push_requested,     \* the pages the push scan requested (history)
    \* ---- two jobs side by side (views.py:153-271, miner.py:100-122, 502-504)
    JOBS,               \* job id -> None, or the registry entry [q, done, ok, public_url]
    repositories,       \* the Repository table: rows [owner_id, name, url]
    job_args,           \* job id -> None, or the thread's args [repo, sb_user_uuid]
    tpc,                \* job id -> the statement the job's thread or miner process is at
    proc_code,          \* job id -> <<>>, or <<the exit code of the job's miner process>>
    mined_from,         \* job id -> <<>>, or <<the origin of the clone its miner traversed>>
    cloned_repos,       \* repo name -> the directory cloned_repos/<name>: [git, analytics]
    bucket,             \* object name -> <<>>, or <<the report stored under it>>
    uploaded,           \* job id -> <<>>, or <<the report the job uploaded>> (history)
    analysis_rows       \* the Analysis rows created, in order

jobVars == <<q, done, ok, public_url, wpc, code, candidate_exists, url_local, nlines,
             upload_attempted, analyses, emitted, done_at, rpc, events>>
getVars == <<gpc, max_retries, gi, gnow, grequests, gstatuses, gsleeps, gresult, gcause>>
scanVars == <<spc, target_shas, hard_page_cap, cutoff_dt, page, all_runs, covered,
              runs, ridx, oldest, requested, stop_reason>>
sumVars == <<sumpc, workflow_runs, sumidx, by_sha>>
streakVars == <<stpc, unique_dates_sorted, sti, streaks, current_streak, sresult>>
minerVars == <<mpc, commits, total_commits, miner_target_shas, push_runs, pr_runs, ci_runs,
               ci_index, ci_covered_commits, ci_coverage_ratio, cidx, authors, run_i,
               ci_status_totals, results, written, exit_code, repo_total_insertions,
               repo_total_deletions>>
repoTotals == <<repo_total_insertions, repo_total_deletions>>
pipeVars == <<push_covered, push_requested>>
concVars == <<JOBS, repositories, job_args, tpc, proc_code, mined_from, cloned_repos,
              bucket, uploaded, analysis_rows>>
restVars == <<sumVars, streakVars, minerVars, pipeVars, concVars>>
vars == <<jobVars, getVars, scanVars, restVars>>
notJob == <<getVars, scanVars, restVars>>
notGet == <<jobVars, scanVars, restVars>>
notScan == <<jobVars, getVars, restVars>>
notSum == <<jobVars, getVars, scanVars, streakVars, minerVars, pipeVars, concVars>>
notStreak == <<jobVars, getVars, scanVars, sumVars, minerVars, pipeVars, concVars>>
notMiner == <<jobVars, getVars, scanVars, sumVars, streakVars, pipeVars, concVars>>
notConc == <<jobVars, getVars, scanVars, sumVars, streakVars, minerVars, pipeVars>>

\* Python's None; "True"/"False" are the values of a field that may also be None.
None == "None"
PyTrue == "True"
PyFalse == "False"

(***************************************************************************)
(* Bounds of the model.                                                    *)
(***************************************************************************)
MaxMinerLines == 2      \* lines the miner subprocess prints before it exits
MaxRetries == 4         \* largest max_retries tried for _get
MaxWait == 1            \* largest distance of X-RateLimit-Reset into the future
MaxPageCap == 2         \* largest hard_page_cap tried
MaxPageLen == 2         \* largest page the provider returns
MaxTotalRuns == 3       \* runs the provider holds over all pages
MaxSumRuns == 3         \* longest run list given to summarize_runs_by_sha
MaxDay == 10            \* the dates given to compute_average_streak are days 1..MaxDay
MaxCommits == 2         \* most commits in the mining window
MaxCiRuns == 2          \* most runs the two scans of one miner run return together

(***************************************************************************)
(* Progress lines.  A line is a sequence of tokens; the whitespace tokens  *)
(* are the ones str.rstrip() removes.                                      *)
(***************************************************************************)
Whitespace == {" ", "\n", "\t"}

RECURSIVE RStrip(_)
RStrip(line) ==
    IF line # <<>> /\ line[Len(line)] \in Whitespace
    THEN RStrip(SubSeq(line, 1, Len(line) - 1))
    ELSE line

RepoUrl == "https://github.com/owner/repo"
PublicUrls == {"https://sb/u/repo/analytics.json"}
ExitCodes == {0, 1, 2}
CodeStr(c) == IF c = 0 THEN "0" ELSE IF c = 1 THEN "1" ELSE "2"

\* What the miner subprocess may print: every line read from proc.stdout ends
\* with its newline.
MinerLineSet == { <<"Cloning repo", "\n">>, <<"page 1", " ", "\n">>, <<"\n">> }

StartingMsg == <<"Starting analysis for ", RepoUrl, " ...">>
MinerExitedMsg(c) == <<"Miner exited with code ", CodeStr(c)>>
NotFoundMsg == <<"analytics.json not found.">>
UploadedMsg(u) == <<"Uploaded to Supabase -> ", u>>
UploadFailedMsg == <<"Upload failed: ", "e">>
DoneMsg == <<"DONE">>

ReaderIds == {1, 2}

RetryEvent == [kind |-> "retry", line |-> <<>>, ok |-> None, public_url |-> None]
DataEvent(l) == [kind |-> "data", line |-> l, ok |-> None, public_url |-> None]
FinishedEvent(o, u) == [kind |-> "finished", line |-> <<>>, ok |-> o, public_url |-> u]

(***************************************************************************)
(* Initial values of the three parts.                                      *)
(***************************************************************************)
\* _start_background_job has created the JOBS entry and started the thread.
JobIdle ==
    /\ q = <<>>
    /\ done = FALSE
    /\ ok = None
    /\ public_url = None
    /\ wpc = "start"
    /\ code = <<>>
    /\ candidate_exists = None
    /\ url_local = None
    /\ nlines = 0
    /\ upload_attempted = FALSE
    /\ analyses = <<>>
    /\ emitted = <<>>
    /\ done_at = -1
    /\ events = [r \in ReaderIds |-> <<>>]

GetIdle ==
    /\ gpc = "idle"
    /\ max_retries = 0
    /\ gi = 0
    /\ gnow = 0
    /\ grequests = 0
    /\ gstatuses = <<>>
    /\ gsleeps = <<>>
    /\ gresult = <<>>
    /\ gcause = None

ScanIdle ==
    /\ spc = "idle"
    /\ target_shas = {}
    /\ hard_page_cap = 0
    /\ cutoff_dt = 0
    /\ page = 1
    /\ all_runs = <<>>
    /\ covered = {}
    /\ runs = <<>>
    /\ ridx = 0
    /\ oldest = <<>>
    /\ requested = <<>>
    /\ stop_reason = None

SumIdle ==
    /\ sumpc = "idle"
    /\ workflow_runs = <<>>
    /\ sumidx = 1
    /\ by_sha = <<>>

StreakIdle ==
    /\ stpc = "idle"
    /\ unique_dates_sorted = <<>>
    /\ sti = 1
    /\ streaks = <<>>
    /\ current_streak = 0
    /\ sresult = <<>>

MinerIdle ==
    /\ mpc = "idle"
    /\ commits = <<>>
    /\ total_commits = 0
    /\ miner_target_shas = {}
    /\ push_runs = <<>>
    /\ pr_runs = <<>>
    /\ ci_runs = <<>>
    /\ ci_index = <<>>
    /\ ci_covered_commits = 0
    /\ ci_coverage_ratio = <<>>
    /\ cidx = 1
    /\ authors = <<>>
    /\ run_i = 1
    /\ ci_status_totals = <<>>
    /\ results = <<>>
    /\ written = <<>>
    /\ exit_code = <<>>
    /\ repo_total_insertions = 0
    /\ repo_total_deletions = 0

PipeIdle ==
    /\ push_covered = {}
    /\ push_requested = <<>>

\* the two jobs of the concurrent model
JobIds == {1, 2}
\* the Supabase users
Users == {"u1", "u2"}
\* A repository URL is https://github.com followed by its path; the path is
\* a sequence of tokens, "/" being the separator and ".git" the suffix.
\* A name (a path segment) is the sequence of the tokens between two "/".
RepoUrls ==
    { <<"/", "o1", "/", "repo">>,
      <<"/", "o2", "/", "repo", ".git", "/">>,
      <<"/", "o1", "/", "other">>,
      <<"/", "o3", "/", "main">>,
      <<"/", "o1", "/", "repo", "/", "tree", "/", "main">>,
      <<"/", "o1">> }
\* str.rstrip("/")
RECURSIVE RStripSlashes(_)
RStripSlashes(path) ==
    IF path # <<>> /\ path[Len(path)] = "/"
    THEN RStripSlashes(SubSeq(path, 1, Len(path) - 1))
    ELSE path
\* str.lstrip("/")
RECURSIVE LStripSlashes(_)
LStripSlashes(path) ==
    IF path # <<>> /\ Head(path) = "/" THEN LStripSlashes(Tail(path)) ELSE path
\* str.strip("/")
StripSlashes(path) == LStripSlashes(RStripSlashes(path))
\* str.split("/"): the segments between the separators, empty ones included
RECURSIVE SplitSlash(_)
SplitSlash(path) ==
    IF path = <<>> THEN << <<>> >>
    ELSE LET rest == SplitSlash(Tail(path))
         IN  IF Head(path) = "/"
             THEN << <<>> >> \o rest
             ELSE << <<Head(path)>> \o rest[1] >> \o Tail(rest)
\* if name.endswith(".git"): name = name[:-4]
StripGitSuffix(name) ==
    IF name # <<>> /\ name[Len(name)] = ".git"
    THEN SubSeq(name, 1, Len(name) - 1)
    ELSE name
\* views.py lines 133-138 and 251-255: _repo_name_from_url does not raise
\* ValueError, analyze_repo accepts the URL
AcceptedUrl(repo_url) == Len(SplitSlash(StripSlashes(repo_url))) >= 2
\* views.py lines 133-142: the second segment of the path stripped of "/"
\* at both ends, without a trailing ".git"
_repo_name_from_url(repo_url) ==
    StripGitSuffix(SplitSlash(StripSlashes(repo_url))[2])
\* miner.py lines 32-38: the last segment of the path stripped of "/" at its
\* end, without a trailing ".git"
repo_name_from_url(url) ==
    LET segments == SplitSlash(RStripSlashes(url))
    IN  StripGitSuffix(segments[Len(segments)])
\* miner.py lines 113-120: git.Repo.clone_from succeeds only for the URL of
\* a repository, https://github.com/<owner>/<repo>
IsRepoUrl(url) ==
    LET parts == SplitSlash(StripSlashes(url))
    IN  Len(parts) = 2 /\ parts[1] # <<>> /\ parts[2] # <<>>
RepoNames ==
    { _repo_name_from_url(u) : u \in { v \in RepoUrls : AcceptedUrl(v) } }
        \cup { repo_name_from_url(u) : u \in RepoUrls }
\* views.py line 211: f"{sb_user_uuid}/{repo.name}/analytics.json"
ObjectName(user, name) == <<user, name>>

ConcIdle ==
    /\ JOBS = [j \in JobIds |-> None]
    /\ repositories = {}
    /\ job_args = [j \in JobIds |-> None]
    /\ tpc = [j \in JobIds |-> "none"]
    /\ proc_code = [j \in JobIds |-> <<>>]
    /\ mined_from = [j \in JobIds |-> <<>>]
    /\ cloned_repos = [n \in RepoNames |-> [git |-> <<>>, analytics |-> <<>>]]
    /\ bucket = [o \in Users \X RepoNames |-> <<>>]
    /\ uploaded = [j \in JobIds |-> <<>>]
    /\ analysis_rows = <<>>

RestIdle == SumIdle /\ StreakIdle /\ MinerIdle /\ PipeIdle /\ ConcIdle

(***************************************************************************)
(* views.py: _enqueue                                                      *)
(***************************************************************************)
\* Mutant of _enqueue: the queue is bounded (queue.Queue(maxsize=1)), put
\* blocks while it is full.
_enqueue_Bounded(line) ==
    /\ Len(q) < 1
    /\ q' = Append(q, RStrip(line))
    /\ emitted' = Append(emitted, RStrip(line))

\* JOBS[job_id]["q"].put(line.rstrip())
_enqueue(line) ==
    /\ q' = Append(q, RStrip(line))
    /\ emitted' = Append(emitted, RStrip(line))

jobFields == <<done, ok, public_url, done_at>>
workerLocals == <<code, candidate_exists, url_local, nlines>>
collab == <<upload_attempted, analyses>>
readerVars == <<rpc, events>>

(***************************************************************************)
(* views.py: _run_miner_and_upload, one action per statement               *)
(***************************************************************************)
\* line 171
WorkerEnqueueStarting ==
    /\ wpc = "start"
    /\ _enqueue(StartingMsg)
    /\ wpc' = "popen"
    /\ UNCHANGED <<notJob, jobFields, workerLocals, collab, readerVars>>

\* lines 179-189: the subprocess is started
WorkerPopen ==
    /\ wpc = "popen"
    /\ wpc' = "read"
    /\ UNCHANGED <<notJob, q, emitted, jobFields, workerLocals, collab, readerVars>>

\* lines 179-189: subprocess.Popen raises (OSError); nothing catches it, the
\* thread ends
WorkerPopenRaises ==
    /\ wpc = "popen"
    /\ wpc' = "crashed"
    /\ UNCHANGED <<notJob, q, emitted, jobFields, workerLocals, collab, readerVars>>

\* lines 191-192
WorkerReadLine ==
    /\ wpc = "read"
    /\ nlines < MaxMinerLines
    /\ \E l \in MinerLineSet : _enqueue(l)
    /\ nlines' = nlines + 1
    /\ UNCHANGED <<notJob, wpc, jobFields, code, candidate_exists, url_local, collab, readerVars>>

\* line 193: end of proc.stdout, code = proc.wait()
WorkerWait ==
    /\ wpc = "read"
    /\ \E c \in ExitCodes : code' = <<c>>
    /\ wpc' = "check_code"
    /\ UNCHANGED <<notJob, q, emitted, jobFields, candidate_exists, url_local, nlines, collab,
                   readerVars>>

\* lines 195-196
WorkerEnqueueExited ==
    /\ wpc = "check_code"
    /\ code[1] # 0
    /\ _enqueue(MinerExitedMsg(code[1]))
    /\ wpc' = "fail_update"
    /\ UNCHANGED <<notJob, jobFields, workerLocals, collab, readerVars>>

\* Mutant of WorkerCheckCandidate: the result of exists() is not tested.
WorkerCheckCandidate_Unchecked ==
    /\ wpc = "check_code"
    /\ code[1] = 0
    /\ \E e \in BOOLEAN : candidate_exists' = IF e THEN PyTrue ELSE PyFalse
    /\ wpc' = "upload"
    /\ UNCHANGED <<notJob, q, emitted, jobFields, code, url_local, nlines, collab, readerVars>>

\* lines 195, 201-205: candidate1.exists()
WorkerCheckCandidate ==
    /\ wpc = "check_code"
    /\ code[1] = 0
    /\ \E e \in BOOLEAN :
        /\ candidate_exists' = IF e THEN PyTrue ELSE PyFalse
        /\ wpc' = IF e THEN "upload" ELSE "enq_notfound"
    /\ UNCHANGED <<notJob, q, emitted, jobFields, code, url_local, nlines, collab, readerVars>>

\* line 206
WorkerEnqueueNotFound ==
    /\ wpc = "enq_notfound"
    /\ _enqueue(NotFoundMsg)
    /\ wpc' = "fail_update"
    /\ UNCHANGED <<notJob, jobFields, workerLocals, collab, readerVars>>

\* line 213: upload_json_to_supabase returns the public URL
WorkerUploadReturns ==
    /\ wpc = "upload"
    /\ upload_attempted' = TRUE
    /\ \E u \in PublicUrls : url_local' = u
    /\ wpc' = "enq_uploaded"
    /\ UNCHANGED <<notJob, q, emitted, jobFields, code, candidate_exists, nlines, analyses,
                   readerVars>>

\* lines 213, 216: upload_json_to_supabase raises
WorkerUploadRaises ==
    /\ wpc = "upload"
    /\ upload_attempted' = TRUE
    /\ wpc' = "enq_upload_failed"
    /\ UNCHANGED <<notJob, q, emitted, jobFields, workerLocals, analyses, readerVars>>

\* line 214
WorkerEnqueueUploaded ==
    /\ wpc = "enq_uploaded"
    /\ _enqueue(UploadedMsg(url_local))
    /\ wpc' = "update_ok"
    /\ UNCHANGED <<notJob, jobFields, workerLocals, collab, readerVars>>

\* Mutant of WorkerUpdateOk: the URL is not stored, JOBS[job_id].update(ok=True).
WorkerUpdateOk_NoUrl ==
    /\ wpc = "update_ok"
    /\ ok' = PyTrue
    /\ wpc' = "create"
    /\ UNCHANGED <<notJob, q, emitted, done, public_url, done_at, workerLocals, collab,
                   readerVars>>

\* line 215: JOBS[job_id].update(public_url=public_url, ok=True)
WorkerUpdateOk ==
    /\ wpc = "update_ok"
    /\ public_url' = url_local
    /\ ok' = PyTrue
    /\ wpc' = "create"
    /\ UNCHANGED <<notJob, q, emitted, done, done_at, workerLocals, collab, readerVars>>

\* line 217
WorkerEnqueueUploadFailed ==
    /\ wpc = "enq_upload_failed"
    /\ _enqueue(UploadFailedMsg)
    /\ wpc' = "fail_update"
    /\ UNCHANGED <<notJob, jobFields, workerLocals, collab, readerVars>>

\* Mutant of WorkerFailUpdate: two statements, JOBS[job_id]["done"] = True and
\* then JOBS[job_id]["ok"] = False.
WorkerFailUpdate_Split ==
    /\ wpc = "fail_update"
    /\ IF ~done
       THEN /\ done' = TRUE
            /\ done_at' = Len(emitted)
            /\ UNCHANGED <<ok, wpc>>
       ELSE /\ ok' = PyFalse
            /\ wpc' = "returned"
            /\ UNCHANGED <<done, done_at>>
    /\ UNCHANGED <<notJob, q, emitted, public_url, workerLocals, collab, readerVars>>

\* Mutant of WorkerFailUpdate: the `return` of the except block is missing, the
\* worker goes on to create the Analysis row.
WorkerFailUpdate_NoReturn ==
    /\ wpc = "fail_update"
    /\ done' = TRUE
    /\ ok' = PyFalse
    /\ done_at' = Len(emitted)
    /\ wpc' = IF upload_attempted THEN "create" ELSE "returned"
    /\ UNCHANGED <<notJob, q, emitted, public_url, workerLocals, collab, readerVars>>

\* lines 197-198, 207-208, 218-219: JOBS[job_id].update(done=True, ok=False); return
\* (dict.update is one C call: no other thread sees done without ok)
WorkerFailUpdate ==
    /\ wpc = "fail_update"
    /\ done' = TRUE
    /\ ok' = PyFalse
    /\ done_at' = Len(emitted)
    /\ wpc' = "returned"
    /\ UNCHANGED <<notJob, q, emitted, public_url, workerLocals, collab, readerVars>>

\* lines 222-229: Analysis.objects.create(..., json_url=public_url)
WorkerCreateAnalysis ==
    /\ wpc = "create"
    /\ analyses' = Append(analyses, url_local)
    /\ wpc' = "set_done"
    /\ UNCHANGED <<notJob, q, emitted, jobFields, workerLocals, upload_attempted, readerVars>>

\* lines 222-229: Analysis.objects.create raises (database error); nothing
\* catches it, the thread ends
WorkerCreateRaises ==
    /\ wpc = "create"
    /\ wpc' = "crashed"
    /\ UNCHANGED <<notJob, q, emitted, jobFields, workerLocals, collab, readerVars>>

\* line 231: JOBS[job_id]["done"] = True
WorkerSetDone ==
    /\ wpc = "set_done"
    /\ done' = TRUE
    /\ done_at' = Len(emitted)
    /\ wpc' = "enq_done"
    /\ UNCHANGED <<notJob, q, emitted, ok, public_url, workerLocals, collab, readerVars>>

\* line 232: _enqueue(job_id, "DONE"), after done was set
WorkerEnqueueDone ==
    /\ wpc = "enq_done"
    /\ _enqueue(DoneMsg)
    /\ wpc' = "returned"
    /\ UNCHANGED <<notJob, jobFields, workerLocals, collab, readerVars>>

\* the next statement of the worker thread
WorkerNext ==
    \/ WorkerEnqueueStarting
    \/ WorkerPopen
    \/ WorkerPopenRaises
    \/ WorkerReadLine
    \/ WorkerWait
    \/ WorkerEnqueueExited
    \/ WorkerCheckCandidate
    \/ WorkerEnqueueNotFound
    \/ WorkerUploadReturns
    \/ WorkerUploadRaises
    \/ WorkerEnqueueUploaded
    \/ WorkerUpdateOk
    \/ WorkerEnqueueUploadFailed
    \/ WorkerFailUpdate
    \/ WorkerCreateAnalysis
    \/ WorkerCreateRaises
    \/ WorkerSetDone
    \/ WorkerEnqueueDone

workerVars == <<wpc, workerLocals, collab, emitted>>

(***************************************************************************)
(* views.py: stream_progress.gen, one action per step of the generator     *)
(***************************************************************************)
Yield(r, e) == events' = [events EXCEPT ![r] = Append(@, e)]

\* line 282: yield "retry: 1000\n\n"
ReaderYieldRetry(r) ==
    /\ rpc[r] = "start"
    /\ Yield(r, RetryEvent)
    /\ rpc' = [rpc EXCEPT ![r] = "get"]
    /\ UNCHANGED <<notJob, q, jobFields, workerVars>>

\* Mutant of ReaderGet: the queue hands out its newest line (a LIFO queue).
ReaderGet_Lifo(r) ==
    /\ rpc[r] = "get"
    /\ q # <<>>
    /\ Yield(r, DataEvent(q[Len(q)]))
    /\ q' = SubSeq(q, 1, Len(q) - 1)
    /\ UNCHANGED <<notJob, rpc, jobFields, workerVars>>

\* Mutant of ReaderGet: every reader is handed the lines from the first one
\* on (a broadcast of the history instead of one shared queue).
ReaderGet_Replay(r) ==
    /\ rpc[r] = "get"
    /\ q # <<>>
    /\ LET seen == Len(SelectSeq(events[r], LAMBDA ev : ev.kind = "data"))
       IN  Yield(r, DataEvent(emitted[seen + 1]))
    /\ q' = IF Len(SelectSeq(events[r], LAMBDA ev : ev.kind = "data")) + 1 = Len(emitted)
            THEN <<>> ELSE q
    /\ UNCHANGED <<notJob, rpc, jobFields, workerVars>>

\* lines 285-286: q.get(timeout=1) returns a line; yield f"data: {line}\n\n"
ReaderGet(r) ==
    /\ rpc[r] = "get"
    /\ q # <<>>
    /\ Yield(r, DataEvent(Head(q)))
    /\ q' = Tail(q)
    /\ UNCHANGED <<notJob, rpc, jobFields, workerVars>>

\* lines 285, 287: q.get(timeout=1) raises queue.Empty
ReaderTimeout(r) ==
    /\ rpc[r] = "get"
    /\ q = <<>>
    /\ rpc' = [rpc EXCEPT ![r] = "check"]
    /\ UNCHANGED <<notJob, q, events, jobFields, workerVars>>

\* line 288: if JOBS[job_id]["done"]
ReaderCheckDone(r) ==
    /\ rpc[r] = "check"
    /\ rpc' = [rpc EXCEPT ![r] = IF done THEN "payload" ELSE "get"]
    /\ UNCHANGED <<notJob, q, events, jobFields, workerVars>>

\* lines 289-295: the payload is read, the finished event is yielded, break
ReaderFinish(r) ==
    /\ rpc[r] = "payload"
    /\ Yield(r, FinishedEvent(ok, public_url))
    /\ rpc' = [rpc EXCEPT ![r] = "ended"]
    /\ UNCHANGED <<notJob, q, jobFields, workerVars>>

\* One job, one reader (reader 1) attached to it.
Init ==
    /\ JobIdle
    /\ rpc = [r \in ReaderIds |-> IF r = 1 THEN "start" ELSE "absent"]
    /\ GetIdle
    /\ ScanIdle
    /\ RestIdle

Next ==
    \/ WorkerEnqueueStarting
    \/ WorkerPopen
    \/ WorkerPopenRaises
    \/ WorkerReadLine
    \/ WorkerWait
    \/ WorkerEnqueueExited
    \/ WorkerCheckCandidate
    \/ WorkerEnqueueNotFound
    \/ WorkerUploadReturns
    \/ WorkerUploadRaises
    \/ WorkerEnqueueUploaded
    \/ WorkerUpdateOk
    \/ WorkerEnqueueUploadFailed
    \/ WorkerFailUpdate
    \/ WorkerCreateAnalysis
    \/ WorkerCreateRaises
    \/ WorkerSetDone
    \/ WorkerEnqueueDone
    \/ \E r \in ReaderIds : ReaderYieldRetry(r)
    \/ \E r \in ReaderIds : ReaderGet(r)
    \/ \E r \in ReaderIds : ReaderTimeout(r)
    \/ \E r \in ReaderIds : ReaderCheckDone(r)
    \/ \E r \in ReaderIds : ReaderFinish(r)

\* One job, two stream_progress requests for it at the same time.
InitReaders ==
    /\ JobIdle
    /\ rpc = [r \in ReaderIds |-> "start"]
    /\ GetIdle
    /\ ScanIdle
    /\ RestIdle

SpecReaders == InitReaders /\ [][Next]_vars

Spec == Init /\ [][Next]_vars

(***************************************************************************)
(* github_ci.py: _sleep_until_reset and _get                               *)
(***************************************************************************)
base_sleep == 2

\* A response header: absent, a text that int() rejects, or an integer literal.
AbsentHeader == [kind |-> "absent", val |-> 0]
TextHeader == [kind |-> "text", val |-> 0]
IntHeader(n) == [kind |-> "int", val |-> n]

\* int(resp.headers.get(name, default)): <<n>>, or <<>> for a ValueError
HeaderInt(h, default) ==
    IF h.kind = "absent" THEN <<default>>
    ELSE IF h.kind = "text" THEN <<>>
    ELSE <<h.val>>

Max(a, b) == IF a >= b THEN a ELSE b

\* _sleep_until_reset(resp) at time now: the seconds it sleeps; it returns True
\* exactly when it slept (the sleep is at least 2 seconds then), 0 stands for
\* "returned False without sleeping".
SleepUntilReset(resp, now) ==
    LET remaining == HeaderInt(resp.remaining, 1)
        reset_unix == HeaderInt(resp.reset, 0)
    IN  IF remaining = <<>> \/ reset_unix = <<>> THEN 0
        ELSE IF remaining[1] <= 0 /\ reset_unix[1] > now
             THEN Max(0, reset_unix[1] - now) + 1
             ELSE 0

Statuses == {200, 204, 304, 401, 403, 404, 500, 503}
Is5xx(st) == 500 <= st /\ st < 600
\* requests.Response.raise_for_status raises for 400 <= status < 600
IsErrorStatus(st) == 400 <= st /\ st < 600

\* The responses the provider may give at time now.
Responses(now) ==
    { [status |-> st, remaining |-> h[1], reset |-> h[2]] :
        st \in Statuses,
        h \in { <<AbsentHeader, AbsentHeader>>,
                <<IntHeader(0), IntHeader(now)>>,
                <<IntHeader(5), IntHeader(now + 1)>>,
                <<TextHeader, IntHeader(now + 1)>> }
              \cup { <<IntHeader(0), IntHeader(now + d)>> : d \in 1..MaxWait } }

Sleep(kind, secs) ==
    /\ gsleeps' = Append(gsleeps, [kind |-> kind, secs |-> secs, attempt |-> gi + 1])
    /\ gnow' = gnow + secs

\* line 61: r = requests.get(...) inside `for i in range(max_retries)`
Request(resp) ==
    /\ gpc = "loop"
    /\ gi < max_retries
    /\ grequests' = grequests + 1
    /\ gstatuses' = Append(gstatuses, resp.status)

\* line 61: requests.get raises (connection error, timeout)
GetRequestRaises ==
    /\ gpc = "loop"
    /\ gi < max_retries
    /\ grequests' = grequests + 1
    /\ gpc' = "raised"
    /\ gcause' = "network"
    /\ UNCHANGED <<notGet, max_retries, gi, gnow, gstatuses, gsleeps, gresult>>

\* lines 63-65: 403, _sleep_until_reset slept; `continue` takes the next i
GetRateLimitWait ==
    \E resp \in Responses(gnow) :
        /\ Request(resp)
        /\ resp.status = 403
        /\ SleepUntilReset(resp, gnow) > 0
        /\ Sleep("reset", SleepUntilReset(resp, gnow))
        /\ gi' = gi + 1
        /\ UNCHANGED <<notGet, gpc, max_retries, gresult, gcause>>

\* lines 63-67: 403 without the rate-limit signal: linear backoff
GetBackoff403 ==
    \E resp \in Responses(gnow) :
        /\ Request(resp)
        /\ resp.status = 403
        /\ SleepUntilReset(resp, gnow) = 0
        /\ Sleep("backoff", base_sleep * (gi + 1))
        /\ gi' = gi + 1
        /\ UNCHANGED <<notGet, gpc, max_retries, gresult, gcause>>

\* Mutant of GetBackoff5xx: the backoff is constant, time.sleep(base_sleep).
GetBackoff5xx_Constant ==
    \E resp \in Responses(gnow) :
        /\ Request(resp)
        /\ resp.status # 403
        /\ Is5xx(resp.status)
        /\ Sleep("backoff", base_sleep)
        /\ gi' = gi + 1
        /\ UNCHANGED <<notGet, gpc, max_retries, gresult, gcause>>

\* lines 69-71: 5xx: linear backoff
GetBackoff5xx ==
    \E resp \in Responses(gnow) :
        /\ Request(resp)
        /\ resp.status # 403
        /\ Is5xx(resp.status)
        /\ Sleep("backoff", base_sleep * (gi + 1))
        /\ gi' = gi + 1
        /\ UNCHANGED <<notGet, gpc, max_retries, gresult, gcause>>

\* Mutant of GetRaiseForStatus: every error status is retried with backoff.
GetRaiseForStatus_Retries ==
    \E resp \in Responses(gnow) :
        /\ Request(resp)
        /\ resp.status # 403
        /\ ~Is5xx(resp.status)
        /\ IsErrorStatus(resp.status)
        /\ Sleep("backoff", base_sleep * (gi + 1))
        /\ gi' = gi + 1
        /\ UNCHANGED <<notGet, gpc, max_retries, gresult, gcause>>

\* line 73: r.raise_for_status() raises
GetRaiseForStatus ==
    \E resp \in Responses(gnow) :
        /\ Request(resp)
        /\ resp.status # 403
        /\ ~Is5xx(resp.status)
        /\ IsErrorStatus(resp.status)
        /\ gpc' = "raised"
        /\ gcause' = "status"
        /\ UNCHANGED <<notGet, max_retries, gi, gnow, gsleeps, gresult>>

\* lines 73-76: raise_for_status passes, _sleep_until_reset(r) may sleep, return r
GetReturn ==
    \E resp \in Responses(gnow) :
        /\ Request(resp)
        /\ resp.status # 403
        /\ ~Is5xx(resp.status)
        /\ ~IsErrorStatus(resp.status)
        /\ IF SleepUntilReset(resp, gnow) > 0
           THEN Sleep("preemptive", SleepUntilReset(resp, gnow))
           ELSE UNCHANGED <<gsleeps, gnow>>
        /\ gresult' = <<resp>>
        /\ gpc' = "returned"
        /\ UNCHANGED <<notGet, max_retries, gi, gcause>>

\* Mutant of GetExhausted: the final r.raise_for_status() is missing, the
\* function falls off its end and returns None.
GetExhausted_ReturnsNone ==
    /\ gpc = "loop"
    /\ gi >= max_retries
    /\ gpc' = "returned"
    /\ UNCHANGED <<notGet, max_retries, gi, gnow, grequests, gstatuses, gsleeps, gresult,
                   gcause>>

\* line 77: the loop is over, r.raise_for_status() on the last response
\* (falling off the end would return None)
GetExhausted ==
    /\ gpc = "loop"
    /\ gi >= max_retries
    /\ IF IsErrorStatus(gstatuses[Len(gstatuses)])
       THEN gpc' = "raised" /\ gcause' = "exhausted"
       ELSE gpc' = "returned" /\ UNCHANGED gcause
    /\ UNCHANGED <<notGet, max_retries, gi, gnow, grequests, gstatuses, gsleeps, gresult>>

\* A call _get(url, params, max_retries = n) with n >= 1.
InitGet ==
    /\ JobIdle
    /\ rpc = [r \in ReaderIds |-> "absent"]
    /\ ScanIdle
    /\ RestIdle
    /\ gpc = "loop"
    /\ max_retries \in 1..MaxRetries
    /\ gi = 0
    /\ gnow = 1000
    /\ grequests = 0
    /\ gstatuses = <<>>
    /\ gsleeps = <<>>
    /\ gresult = <<>>
    /\ gcause = None

NextGet ==
    \/ GetRequestRaises
    \/ GetRateLimitWait
    \/ GetBackoff403
    \/ GetBackoff5xx
    \/ GetRaiseForStatus
    \/ GetReturn
    \/ GetExhausted

SpecGet == InitGet /\ [][NextGet]_vars

(***************************************************************************)
(* github_ci.py: fetch_workflow_runs_covering                              *)
(***************************************************************************)
\* repo_full = f"{owner}/{repo}"
repo_full == "owner/repo"

\* ISO timestamps as the provider sends them, with the UTC instant (in days)
\* that datetime.fromisoformat(ts.replace("Z", "+00:00")).astimezone(utc) gives.
IsoInstants ==
    { <<"2024-01-01T00:00:00Z", 1>>,
      <<"2024-01-02T00:00:00Z", 2>>,
      <<"2024-01-03T01:00:00+01:00", 3>>,
      <<"2024-01-03T00:00:00Z", 3>> }
\* <<instant>>, or <<>> when fromisoformat raises ValueError
FromIso(ts) ==
    IF \E p \in IsoInstants : p[1] = ts
    THEN <<(CHOOSE p \in IsoInstants : p[1] = ts)[2]>>
    ELSE <<>>

Run(sha, head_repo, updated, created) ==
    [head_sha |-> sha, head_repo |-> head_repo, updated_at |-> updated, created_at |-> created]

\* The workflow runs the provider may hold: head_repo is
\* (run.get("head_repository") or {}).get("full_name"); None stands for a
\* missing key, a null or an empty string.
ProviderRuns ==
    { Run("a", repo_full, "2024-01-03T00:00:00Z", "2024-01-03T00:00:00Z"),
      Run("a", "fork/repo", "2024-01-03T00:00:00Z", "2024-01-03T00:00:00Z"),
      Run("b", None, "2024-01-03T01:00:00+01:00", None),
      Run(None, repo_full, "2024-01-03T00:00:00Z", None),
      Run("b", repo_full, "2024-01-01T00:00:00Z", "2024-01-01T00:00:00Z"),
      Run("a", repo_full, None, None),
      Run("a", repo_full, None, "2024-01-02T00:00:00Z"),
      Run("b", repo_full, "yesterday", None) }
ProviderShas == {"a", "b"}

RECURSIVE SeqsUpTo(_, _)
\* the sequences over S of length 0..n
SeqsUpTo(S, n) ==
    IF n = 0 THEN { <<>> }
    ELSE LET shorter == SeqsUpTo(S, n - 1)
         IN  shorter \cup { Append(t, x) : t \in { u \in shorter : Len(u) = n - 1 }, x \in S }

\* The runs the provider holds when the miner does the two scans.
PipelineRuns ==
    { Run("a", repo_full, "2024-01-03T00:00:00Z", "2024-01-03T00:00:00Z"),
      Run("a", "fork/repo", "yesterday", None),
      Run("b", repo_full, "2024-01-01T00:00:00Z", "2024-01-01T00:00:00Z"),
      Run("b", repo_full, "yesterday", None) }
\* the provider of a scan called on its own, or by main()
Provider == IF mpc = "idle" THEN ProviderRuns ELSE PipelineRuns

\* the pages the provider can still return: at most MaxPageLen runs a page,
\* MaxTotalRuns runs over all pages (of both scans of a miner run)
Pages == { pg \in SeqsUpTo(Provider, MaxPageLen) :
             Len(push_runs) + Len(all_runs) + Len(pg) <= MaxTotalRuns }

\* head_repo and head_repo != repo_full
IsForkRun(run) == run.head_repo # None /\ run.head_repo # repo_full
\* run.get("updated_at") or run.get("created_at")
RunTs(run) == IF run.updated_at # None THEN run.updated_at ELSE run.created_at

scanParams == <<target_shas, hard_page_cap, cutoff_dt>>

\* Mutant of ScanRequestPage: the loop test is off by one,
\* `while page <= hard_page_cap + 1`.
ScanRequestPage_OffByOne ==
    /\ spc = "loop"
    /\ page <= hard_page_cap + 1
    /\ \E pg \in Pages :
        /\ pg # <<>>
        /\ runs' = pg
        /\ all_runs' = all_runs \o pg
    /\ requested' = Append(requested, page)
    /\ oldest' = <<>>
    /\ ridx' = 1
    /\ spc' = "runs"
    /\ UNCHANGED <<notScan, scanParams, page, covered, stop_reason>>

\* lines 100-106, 108, 114: page <= hard_page_cap, _get returns a non-empty
\* page, all_runs.extend(runs), oldest = None
ScanRequestPage ==
    /\ spc = "loop"
    /\ page <= hard_page_cap
    /\ \E pg \in Pages :
        /\ pg # <<>>
        /\ runs' = pg
        /\ all_runs' = all_runs \o pg
    /\ requested' = Append(requested, page)
    /\ oldest' = <<>>
    /\ ridx' = 1
    /\ spc' = "runs"
    /\ UNCHANGED <<notScan, scanParams, page, covered, stop_reason>>

\* lines 105-112: the page is empty: break
ScanEmptyPage ==
    /\ spc = "loop"
    /\ page <= hard_page_cap
    /\ requested' = Append(requested, page)
    /\ runs' = <<>>
    /\ stop_reason' = "empty"
    /\ spc' = "returned"
    /\ UNCHANGED <<notScan, scanParams, page, all_runs, covered, ridx, oldest>>

\* line 105: _get raises; the exception leaves fetch_workflow_runs_covering
ScanGetRaises ==
    /\ spc = "loop"
    /\ page <= hard_page_cap
    /\ requested' = Append(requested, page)
    /\ stop_reason' = "get_raised"
    /\ spc' = "raised"
    /\ UNCHANGED <<notScan, scanParams, page, all_runs, covered, runs, ridx, oldest>>

\* line 100: page > hard_page_cap ends the while loop; line 145 returns
ScanCapReached ==
    /\ spc = "loop"
    /\ page > hard_page_cap
    /\ stop_reason' = "cap"
    /\ spc' = "returned"
    /\ UNCHANGED <<notScan, scanParams, page, all_runs, covered, runs, ridx, oldest,
                   requested>>

\* the for loop over runs moves on; after the last run, line 133 follows
NextRun ==
    /\ ridx' = ridx + 1
    /\ spc' = IF ridx = Len(runs) THEN "endpage" ELSE "runs"

\* lines 119-121: a run of another head repository is skipped
ScanRunSkipFork ==
    /\ spc = "runs"
    /\ IsForkRun(runs[ridx])
    /\ NextRun
    /\ UNCHANGED <<notScan, scanParams, page, all_runs, covered, runs, oldest, requested,
                   stop_reason>>

\* Mutant of ScanRunProcess: covered.add(sha) without `if sha in target_shas`.
ScanRunProcess_AddsAnySha ==
    /\ spc = "runs"
    /\ ~IsForkRun(runs[ridx])
    /\ LET run == runs[ridx]
           ts == RunTs(run)
       IN  /\ ts # None => FromIso(ts) # <<>>
           /\ covered' = IF run.head_sha # None
                         THEN covered \cup {run.head_sha} ELSE covered
           /\ oldest' = IF ts # None /\ (oldest = <<>> \/ FromIso(ts)[1] < oldest[1])
                        THEN FromIso(ts) ELSE oldest
    /\ NextRun
    /\ UNCHANGED <<notScan, scanParams, page, all_runs, runs, requested, stop_reason>>

\* lines 123-131: the run counts for coverage and for the oldest timestamp
ScanRunProcess ==
    /\ spc = "runs"
    /\ ~IsForkRun(runs[ridx])
    /\ LET run == runs[ridx]
           ts == RunTs(run)
       IN  /\ ts # None => FromIso(ts) # <<>>
           /\ covered' = IF run.head_sha \in target_shas
                         THEN covered \cup {run.head_sha} ELSE covered
           /\ oldest' = IF ts # None /\ (oldest = <<>> \/ FromIso(ts)[1] < oldest[1])
                        THEN FromIso(ts) ELSE oldest
    /\ NextRun
    /\ UNCHANGED <<notScan, scanParams, page, all_runs, runs, requested, stop_reason>>

\* lines 123-129: the timestamp does not parse, fromisoformat raises ValueError
\* (after covered.add) and the exception leaves fetch_workflow_runs_covering
ScanRunBadTimestamp ==
    /\ spc = "runs"
    /\ ~IsForkRun(runs[ridx])
    /\ LET run == runs[ridx]
           ts == RunTs(run)
       IN  /\ ts # None
           /\ FromIso(ts) = <<>>
           /\ covered' = IF run.head_sha \in target_shas
                         THEN covered \cup {run.head_sha} ELSE covered
    /\ stop_reason' = "bad_timestamp"
    /\ spc' = "raised"
    /\ UNCHANGED <<notScan, scanParams, page, all_runs, runs, ridx, oldest, requested>>

\* lines 136-138: covered.issuperset(target_shas): break
ScanStopCovered ==
    /\ spc = "endpage"
    /\ target_shas \subseteq covered
    /\ stop_reason' = "covered"
    /\ spc' = "returned"
    /\ UNCHANGED <<notScan, scanParams, page, all_runs, covered, runs, ridx, oldest,
                   requested>>

\* Mutant of ScanStopCutoff: the comparison is `oldest <= cutoff_dt`.
ScanStopCutoff_Inclusive ==
    /\ spc = "endpage"
    /\ ~(target_shas \subseteq covered)
    /\ oldest # <<>> /\ oldest[1] <= cutoff_dt
    /\ stop_reason' = "cutoff"
    /\ spc' = "returned"
    /\ UNCHANGED <<notScan, scanParams, page, all_runs, covered, runs, ridx, oldest,
                   requested>>

\* lines 139-141: oldest and oldest < cutoff_dt: break
ScanStopCutoff ==
    /\ spc = "endpage"
    /\ ~(target_shas \subseteq covered)
    /\ oldest # <<>> /\ oldest[1] < cutoff_dt
    /\ stop_reason' = "cutoff"
    /\ spc' = "returned"
    /\ UNCHANGED <<notScan, scanParams, page, all_runs, covered, runs, ridx, oldest,
                   requested>>

\* Mutant of ScanNextPage: the coverage test of line 136 is missing.
ScanNextPage_IgnoresCoverage ==
    /\ spc = "endpage"
    /\ ~(oldest # <<>> /\ oldest[1] < cutoff_dt)
    /\ page' = page + 1
    /\ spc' = "loop"
    /\ UNCHANGED <<notScan, scanParams, all_runs, covered, runs, ridx, oldest, requested,
                   stop_reason>>

\* line 143: page += 1
ScanNextPage ==
    /\ spc = "endpage"
    /\ ~(target_shas \subseteq covered)
    /\ ~(oldest # <<>> /\ oldest[1] < cutoff_dt)
    /\ page' = page + 1
    /\ spc' = "loop"
    /\ UNCHANGED <<notScan, scanParams, all_runs, covered, runs, ridx, oldest, requested,
                   stop_reason>>

\* A call fetch_workflow_runs_covering(owner, repo, cutoff_dt, target_shas,
\* hard_page_cap), lines 95-98 executed.
InitScan ==
    /\ JobIdle
    /\ rpc = [r \in ReaderIds |-> "absent"]
    /\ GetIdle
    /\ RestIdle
    /\ spc = "loop"
    /\ target_shas \in SUBSET ProviderShas
    /\ hard_page_cap \in 0..MaxPageCap
    /\ cutoff_dt \in {2}
    /\ page = 1
    /\ all_runs = <<>>
    /\ covered = {}
    /\ runs = <<>>
    /\ ridx = 0
    /\ oldest = <<>>
    /\ requested = <<>>
    /\ stop_reason = None

NextScan ==
    \/ ScanRequestPage
    \/ ScanEmptyPage
    \/ ScanGetRaises
    \/ ScanCapReached
    \/ ScanRunSkipFork
    \/ ScanRunProcess
    \/ ScanRunBadTimestamp
    \/ ScanStopCovered
    \/ ScanStopCutoff
    \/ ScanNextPage

SpecScan == InitScan /\ [][NextScan]_vars

(***************************************************************************)
(* github_ci.py: summarize_runs_by_sha                                     *)
(***************************************************************************)
\* dict.get(key): None for a missing key
Get(d, key) == IF key \in DOMAIN d THEN d[key] ELSE None
\* truth value of an optional string: None and "" are false
Truthy(x) == x # None /\ x # ""
\* `a or b` on optional strings
Or(a, b) == IF Truthy(a) THEN a ELSE b

\* str.lower() on the conclusions of the model
Lower(str) ==
    CASE str = "Success" -> "success"
      [] str = "FAILURE" -> "failure"
      [] OTHER -> str

\* Python's order of the timestamp strings of the model (code point order)
StrOrder ==
    << "2024-01-01T00:00:00Z", "2024-01-02T00:00:00Z", "2024-01-03T00:00:00Z",
       "2024-01-03T01:00:00+01:00", "yesterday" >>
StrPos(str) == CHOOSE k \in 1..Len(StrOrder) : StrOrder[k] = str
\* a > b on strings
StrGreater(a, b) == StrPos(a) > StrPos(b)

\* the keys of conclusions_tally, lines 165-173
TallyKeys ==
    {"success", "failure", "cancelled", "timed_out", "skipped", "neutral", "action_required"}

\* the default of by_sha.setdefault, lines 161-174; latest_run is <<>> for None
NewSummary ==
    [ has_actions_runs |-> TRUE,
      runs_count |-> 0,
      latest_run |-> <<>>,
      conclusions_tally |-> [k \in TallyKeys |-> 0] ]

\* the projection stored as latest_run, lines 189-200 (name, status, html_url,
\* head_branch and workflow_id are copied the same way)
LatestOf(run) ==
    [ id |-> Get(run, "id"),
      event |-> Get(run, "event"),
      conclusion |-> Get(run, "conclusion"),
      created_at |-> Get(run, "created_at"),
      updated_at |-> Get(run, "updated_at") ]

\* lines 183-186: is_newer for the current latest_run (<<>> for None) and run
IsNewer(latest, run) ==
    LET old_ts == IF latest # <<>> THEN Get(latest[1], "updated_at") ELSE None
        new_ts == Or(Get(run, "updated_at"), Get(run, "created_at"))
    IN  \/ old_ts = None
        \/ Truthy(new_ts) /\ Truthy(old_ts) /\ StrGreater(new_ts, old_ts)

\* Mutant of Summarize: runs_count is incremented only for a recognised
\* conclusion (the increment moved under `if concl in ...`).
Summarize_CountsInsideIf(d, run) ==
    LET concl == Lower(Or(Get(run, "conclusion"), ""))
        known == concl \in DOMAIN d.conclusions_tally
        tally == IF known
                 THEN [d.conclusions_tally EXCEPT ![concl] = @ + 1]
                 ELSE d.conclusions_tally
    IN  [ has_actions_runs |-> d.has_actions_runs,
          runs_count |-> IF known THEN d.runs_count + 1 ELSE d.runs_count,
          latest_run |-> IF IsNewer(d.latest_run, run) THEN <<LatestOf(run)>>
                         ELSE d.latest_run,
          conclusions_tally |-> tally ]

\* lines 176-200: the summary d of a SHA after one more run of that SHA
Summarize(d, run) ==
    LET concl == Lower(Or(Get(run, "conclusion"), ""))
        tally == IF concl \in DOMAIN d.conclusions_tally
                 THEN [d.conclusions_tally EXCEPT ![concl] = @ + 1]
                 ELSE d.conclusions_tally
    IN  [ has_actions_runs |-> d.has_actions_runs,
          runs_count |-> d.runs_count + 1,
          latest_run |-> IF IsNewer(d.latest_run, run) THEN <<LatestOf(run)>>
                         ELSE d.latest_run,
          conclusions_tally |-> tally ]

\* by_sha with the entry of sha set to d
DictPut(dict, key, d) ==
    [k \in DOMAIN dict \cup {key} |-> IF k = key THEN d ELSE dict[k]]

\* lines 154-200: by_sha after one iteration of the for loop
SummarizeStep(dict, run) ==
    LET sha == Get(run, "head_sha")
    IN  IF ~Truthy(sha) THEN dict
        ELSE DictPut(dict, sha,
                     Summarize(IF sha \in DOMAIN dict THEN dict[sha] ELSE NewSummary, run))

RECURSIVE SummarizeAll(_, _)
\* the for loop of lines 154-200 from dict over the list rs
SummarizeAll(dict, rs) ==
    IF rs = <<>> THEN dict
    ELSE SummarizeAll(SummarizeStep(dict, Head(rs)), Tail(rs))

\* summarize_runs_by_sha(workflow_runs)
summarize_runs_by_sha(rs) == SummarizeAll(<<>>, rs)

SRun(id, sha, event, conclusion, updated, created) ==
    [ id |-> id, head_sha |-> sha, head_repo |-> repo_full, event |-> event,
      conclusion |-> conclusion, updated_at |-> updated, created_at |-> created ]

\* The workflow runs given to summarize_runs_by_sha.
SumRuns ==
    { SRun("r1", "a", "push", "success", "2024-01-01T00:00:00Z", "2024-01-01T00:00:00Z"),
      SRun("r2", "a", "pull_request", "FAILURE", "2024-01-03T00:00:00Z", "2024-01-01T00:00:00Z"),
      SRun("r3", "a", "push", "stale", None, "2024-01-02T00:00:00Z"),
      SRun("r4", "a", "push", None, None, None),
      SRun("r5", "a", "push", "Success", "2024-01-03T00:00:00Z", "2024-01-03T00:00:00Z"),
      SRun("r6", "b", "pull_request", "cancelled", "2024-01-02T00:00:00Z", None),
      SRun("r7", None, "push", "success", "2024-01-02T00:00:00Z", None),
      SRun("r8", "", "push", "failure", "", ""),
      SRun("r9", "a", "push", "failure", "2024-01-02T00:00:00Z", None) }

\* lines 155-157: the run has no SHA: continue
SumSkipNoSha ==
    /\ sumpc = "loop"
    /\ sumidx <= Len(workflow_runs)
    /\ ~Truthy(Get(workflow_runs[sumidx], "head_sha"))
    /\ sumidx' = sumidx + 1
    /\ UNCHANGED <<notSum, sumpc, workflow_runs, by_sha>>

\* lines 159-200: the run is added to the summary of its SHA
SumRun ==
    /\ sumpc = "loop"
    /\ sumidx <= Len(workflow_runs)
    /\ Truthy(Get(workflow_runs[sumidx], "head_sha"))
    /\ by_sha' = SummarizeStep(by_sha, workflow_runs[sumidx])
    /\ sumidx' = sumidx + 1
    /\ UNCHANGED <<notSum, sumpc, workflow_runs>>

\* line 202: return by_sha
SumReturn ==
    /\ sumpc = "loop"
    /\ sumidx > Len(workflow_runs)
    /\ sumpc' = "returned"
    /\ UNCHANGED <<notSum, workflow_runs, sumidx, by_sha>>

\* A call summarize_runs_by_sha(workflow_runs), line 153 executed.
InitSum ==
    /\ JobIdle
    /\ rpc = [r \in ReaderIds |-> "absent"]
    /\ GetIdle
    /\ ScanIdle
    /\ StreakIdle
    /\ MinerIdle
    /\ PipeIdle
    /\ ConcIdle
    /\ sumpc = "loop"
    /\ workflow_runs \in SeqsUpTo(SumRuns, MaxSumRuns)
    /\ sumidx = 1
    /\ by_sha = <<>>

NextSum ==
    \/ SumSkipNoSha
    \/ SumRun
    \/ SumReturn

SpecSum == InitSum /\ [][NextSum]_vars

(***************************************************************************)
(* miner.py, backend/miner.py: compute_average_streak                      *)
(* A date is its day number; d + timedelta(days=1) is d + 1.  The float    *)
(* sum(streaks) / len(streaks) is kept as the pair <<sum, len>>, 0.0 as    *)
(* <<0, 1>>.                                                               *)
(***************************************************************************)
RECURSIVE SumSeq(_)
\* sum(seq)
SumSeq(seq) == IF seq = <<>> THEN 0 ELSE Head(seq) + SumSeq(Tail(seq))

RECURSIVE SortedSeq(_)
\* sorted(S) for a set of day numbers
SortedSeq(S) ==
    IF S = {} THEN <<>>
    ELSE LET m == CHOOSE x \in S : \A y \in S : x <= y
         IN  <<m>> \o SortedSeq(S \ {m})

\* a / b == c / d on the quotients of the model
RatEq(a, b) == a[1] * b[2] = b[1] * a[2]

\* lines 72-73: if not unique_dates_sorted: return 0.0
StreakEmpty ==
    /\ stpc = "start"
    /\ unique_dates_sorted = <<>>
    /\ sresult' = <<0, 1>>
    /\ stpc' = "returned"
    /\ UNCHANGED <<notStreak, unique_dates_sorted, sti, streaks, current_streak>>

\* lines 74-76: streaks = [], current_streak = 1, the for loop starts at i = 1
StreakStart ==
    /\ stpc = "start"
    /\ unique_dates_sorted # <<>>
    /\ streaks' = <<>>
    /\ current_streak' = 1
    /\ sti' = 1
    /\ stpc' = "loop"
    /\ UNCHANGED <<notStreak, unique_dates_sorted, sresult>>

\* lines 77-78: dates[i] == dates[i - 1] + timedelta(days=1) (0-based i)
StreakExtend ==
    /\ stpc = "loop"
    /\ sti < Len(unique_dates_sorted)
    /\ unique_dates_sorted[sti + 1] = unique_dates_sorted[sti] + 1
    /\ current_streak' = current_streak + 1
    /\ sti' = sti + 1
    /\ UNCHANGED <<notStreak, stpc, unique_dates_sorted, streaks, sresult>>

\* Mutant of StreakClose: current_streak is not reset to 1.
StreakClose_NoReset ==
    /\ stpc = "loop"
    /\ sti < Len(unique_dates_sorted)
    /\ unique_dates_sorted[sti + 1] # unique_dates_sorted[sti] + 1
    /\ streaks' = Append(streaks, current_streak)
    /\ sti' = sti + 1
    /\ UNCHANGED <<notStreak, stpc, unique_dates_sorted, current_streak, sresult>>

\* lines 79-81: the streak ends; a new one starts
StreakClose ==
    /\ stpc = "loop"
    /\ sti < Len(unique_dates_sorted)
    /\ unique_dates_sorted[sti + 1] # unique_dates_sorted[sti] + 1
    /\ streaks' = Append(streaks, current_streak)
    /\ current_streak' = 1
    /\ sti' = sti + 1
    /\ UNCHANGED <<notStreak, stpc, unique_dates_sorted, sresult>>

\* lines 82-83: streaks.append(current_streak); return sum(streaks) / len(streaks)
StreakReturn ==
    /\ stpc = "loop"
    /\ sti >= Len(unique_dates_sorted)
    /\ streaks' = Append(streaks, current_streak)
    /\ sresult' = <<SumSeq(streaks'), Len(streaks')>>
    /\ stpc' = "returned"
    /\ UNCHANGED <<notStreak, unique_dates_sorted, sti, current_streak>>

RECURSIVE backend_streak_loop(_, _, _, _)
\* backend/miner.py lines 43-50: the for loop from i on, then the return
backend_streak_loop(dates, i, strks, cur) ==
    IF i < Len(dates)
    THEN IF dates[i + 1] = dates[i] + 1
         THEN backend_streak_loop(dates, i + 1, strks, cur + 1)
         ELSE backend_streak_loop(dates, i + 1, Append(strks, cur), 1)
    ELSE LET final == Append(strks, cur)
         IN  <<SumSeq(final), Len(final)>>

\* backend/miner.py lines 34-50: the second copy of compute_average_streak
backend_compute_average_streak(dates) ==
    IF dates = <<>> THEN <<0, 1>>
    ELSE backend_streak_loop(dates, 1, <<>>, 1)

\* A call compute_average_streak(unique_dates_sorted) on a sorted list of
\* distinct dates (miner.py:422-425 passes sorted(...) of a set).
InitStreak ==
    /\ JobIdle
    /\ rpc = [r \in ReaderIds |-> "absent"]
    /\ GetIdle
    /\ ScanIdle
    /\ SumIdle
    /\ MinerIdle
    /\ PipeIdle
    /\ ConcIdle
    /\ stpc = "start"
    /\ unique_dates_sorted \in {SortedSeq(S) : S \in SUBSET (1..MaxDay)}
    /\ sti = 1
    /\ streaks = <<>>
    /\ current_streak = 0
    /\ sresult = <<>>

NextStreak ==
    \/ StreakEmpty
    \/ StreakStart
    \/ StreakExtend
    \/ StreakClose
    \/ StreakReturn

SpecStreak == InitStreak /\ [][NextStreak]_vars

(***************************************************************************)
(* miner.py: main()                                                        *)
(* The commit log is what both Repository(dest, since=...) traversals      *)
(* yield.  A call of fetch_workflow_runs_covering is one step that returns *)
(* a run list or raises.  Of a commit the model keeps the hash and the     *)
(* author; of the report the fields built from them and from the runs.     *)
(***************************************************************************)
\* <<commit.author.name, commit.author.email>> of the commits of the model
CommitAuthors == { <<"Ann", "ann@x">>, <<"Ann", "ann@y">>, <<None, None>> }
CommitHashes == {"a", "b", "c"}
\* commit.insertions and commit.deletions of the commits of the model: <<>>
\* for None, else <<the number of lines>>
Insertions(hash) == IF hash = "a" THEN <<3>> ELSE IF hash = "b" THEN <<1>> ELSE <<>>
Deletions(hash) == IF hash = "a" THEN <<>> ELSE IF hash = "b" THEN <<2>> ELSE <<1>>
\* lines 310-311: commit.insertions or 0
OrZero(n) == IF n = <<>> THEN 0 ELSE n[1]
\* every commit of the model is authored at instant 2 (in days, as FromIso)
Commit(hash, author) ==
    [hash |-> hash, name |-> author[1], email |-> author[2], author_date |-> 2,
     insertions |-> Insertions(hash), deletions |-> Deletions(hash)]

\* the commit logs of the window: every commit has its own hash
CommitLogs ==
    { log \in SeqsUpTo({Commit(h, a) : h \in CommitHashes, a \in CommitAuthors}, MaxCommits) :
        \A i, j \in 1..Len(log) : i # j => log[i].hash # log[j].hash }

\* The workflow runs the two scans may return.
MinerRuns ==
    { SRun("m1", "a", "push", "success", "2024-01-01T00:00:00Z", "2024-01-01T00:00:00Z"),
      SRun("m2", "a", "pull_request", "stale", "2024-01-02T00:00:00Z", "2024-01-02T00:00:00Z"),
      SRun("m3", "b", "pull_request", "FAILURE", "2024-01-03T00:00:00Z", "2024-01-01T00:00:00Z"),
      SRun("m4", "z", "push", "startup_failure", None, None),
      [SRun("m5", "b", "push", "success", "yesterday", None) EXCEPT !.head_repo = "fork/repo"] }
\* the provider answers a scan with runs of the requested event
RunsOfEvent(event) == { r \in MinerRuns : r.event = event }

\* lines 125-135: results before the passes (project_path, mined_at and
\* mining_params are set the same way and never read)
InitialResults == [repo_name |-> "repo", authors |-> <<>>]

\* lines 275-277: key = (author_name, author_email)
AuthorKey(commit) ==
    << IF Truthy(commit.name) THEN commit.name ELSE "Unknown",
       IF Truthy(commit.email) THEN commit.email ELSE "unknown@example.com" >>

\* lines 281-301: a new author bucket
NewBucket(key) ==
    [ name |-> key[1],
      email |-> key[2],
      commits |-> <<>>,
      total_insertions |-> 0,
      total_deletions |-> 0,
      ci_conclusions_totals |-> <<>>,
      pr_head_shas |-> {} ]

HasBucket(auths, key) == \E i \in 1..Len(auths) : <<auths[i].name, auths[i].email>> = key
AuthorPos(auths, key) == CHOOSE i \in 1..Len(auths) : <<auths[i].name, auths[i].email>> = key

\* Counter: c[k] += n
CounterAdd(c, k, n) ==
    [x \in DOMAIN c \cup {k} |-> IF x = k THEN (IF k \in DOMAIN c THEN c[k] ELSE 0) + n ELSE c[x]]

\* lines 372-374: totals[status] += cnt for every status of the tally with cnt != 0
AddTally(totals, tally) ==
    LET ks == {k \in DOMAIN tally : tally[k] # 0}
    IN  [x \in DOMAIN totals \cup ks |->
            (IF x \in DOMAIN totals THEN totals[x] ELSE 0) + (IF x \in ks THEN tally[x] ELSE 0)]

\* lines 314-316: ci, <<>> for None
CommitCi(idx, commit) == IF commit.hash \in DOMAIN idx THEN <<idx[commit.hash]>> ELSE <<>>
\* lines 318-324
HasLatest(ci) == ci # <<>> /\ ci[1].latest_run # <<>>
LatestConclusion(ci) ==
    IF HasLatest(ci) THEN Lower(Or(ci[1].latest_run[1].conclusion, "")) ELSE None
LatestEvent(ci) == IF HasLatest(ci) THEN ci[1].latest_run[1].event ELSE None

\* Mutant of CommitRecord: a commit without runs gets an empty summary
\* instead of the marker.
CommitRecord_EmptySummary(commit, key, ci) ==
    [ hash |-> commit.hash,
      author |-> key,
      insertions |-> OrZero(commit.insertions),
      deletions |-> OrZero(commit.deletions),
      ci |-> IF ci # <<>> THEN ci[1] ELSE [NewSummary EXCEPT !.has_actions_runs = FALSE],
      ci_result |-> LatestConclusion(ci) ]

\* lines 326-351: commit_record
CommitRecord(commit, key, ci) ==
    [ hash |-> commit.hash,
      author |-> key,
      insertions |-> OrZero(commit.insertions),
      deletions |-> OrZero(commit.deletions),
      ci |-> IF ci # <<>> THEN ci[1] ELSE [has_actions_runs |-> FALSE],
      ci_result |-> LatestConclusion(ci) ]

\* Mutant of AddCommit: the hash of a pull request head goes to the
\* pr_head_shas of every bucket.
AddCommit_AllAuthors(auths, commit, idx) ==
    LET key == AuthorKey(commit)
        ci == CommitCi(idx, commit)
        with == IF HasBucket(auths, key) THEN auths ELSE Append(auths, NewBucket(key))
        i == AuthorPos(with, key)
    IN  [ j \in 1..Len(with) |->
            [ with[j] EXCEPT
                !.commits = IF j = i THEN Append(@, CommitRecord(commit, key, ci)) ELSE @,
                !.total_insertions = IF j = i THEN @ + OrZero(commit.insertions) ELSE @,
                !.total_deletions = IF j = i THEN @ + OrZero(commit.deletions) ELSE @,
                !.ci_conclusions_totals =
                    IF j = i /\ ci # <<>> /\ ci[1].has_actions_runs
                    THEN AddTally(@, ci[1].conclusions_tally) ELSE @,
                !.pr_head_shas =
                    IF LatestEvent(ci) = "pull_request" THEN @ \cup {commit.hash} ELSE @ ] ]

\* Mutant of AddCommit: the deletions go to the repository total only, the
\* author's total_deletions is left as it is.
AddCommit_NoDeletions(auths, commit, idx) ==
    LET key == AuthorKey(commit)
        ci == CommitCi(idx, commit)
        with == IF HasBucket(auths, key) THEN auths ELSE Append(auths, NewBucket(key))
        i == AuthorPos(with, key)
    IN  [ with EXCEPT ![i] =
            [ @ EXCEPT
                !.commits = Append(@, CommitRecord(commit, key, ci)),
                !.total_insertions = @ + OrZero(commit.insertions),
                !.ci_conclusions_totals =
                    IF ci # <<>> /\ ci[1].has_actions_runs
                    THEN AddTally(@, ci[1].conclusions_tally) ELSE @,
                !.pr_head_shas =
                    IF LatestEvent(ci) = "pull_request" THEN @ \cup {commit.hash} ELSE @ ] ]

\* lines 274-378: authors after one iteration of pass 2
AddCommit(auths, commit, idx) ==
    LET key == AuthorKey(commit)
        ci == CommitCi(idx, commit)
        with == IF HasBucket(auths, key) THEN auths ELSE Append(auths, NewBucket(key))
        i == AuthorPos(with, key)
    IN  [ with EXCEPT ![i] =
            [ @ EXCEPT
                !.commits = Append(@, CommitRecord(commit, key, ci)),
                !.total_insertions = @ + OrZero(commit.insertions),
                !.total_deletions = @ + OrZero(commit.deletions),
                !.ci_conclusions_totals =
                    IF ci # <<>> /\ ci[1].has_actions_runs
                    THEN AddTally(@, ci[1].conclusions_tally) ELSE @,
                !.pr_head_shas =
                    IF LatestEvent(ci) = "pull_request" THEN @ \cup {commit.hash} ELSE @ ] ]

\* lines 427-450: the finalized author (average_streak_days and the
\* frequency tables are built from the commit dates)
Finalize(b) ==
    [ name |-> b.name,
      email |-> b.email,
      commit_count |-> Len(b.commits),
      total_insertions |-> b.total_insertions,
      total_deletions |-> b.total_deletions,
      ci_conclusions_totals |-> b.ci_conclusions_totals,
      pr_count |-> Cardinality(b.pr_head_shas),
      commits |-> b.commits ]

\* lines 454-457: all_pr_head_shas
AllPrHeadShas(auths) == UNION { auths[i].pr_head_shas : i \in 1..Len(auths) }

\* lines 400 and 404 of the repo-level loop
RunConcl(run) == Lower(Or(Get(run, "conclusion"), ""))
RunStamp(run) == Or(Get(run, "updated_at"), Get(run, "created_at"))
\* lines 401-402
TallyRun(totals, run) ==
    IF RunConcl(run) # "" THEN CounterAdd(totals, RunConcl(run), 1) ELSE totals

\* lines 157-170: pass 1
MinerPass1 ==
    /\ mpc = "pass1"
    /\ total_commits' = Len(commits)
    /\ miner_target_shas' = { commits[i].hash : i \in 1..Len(commits) }
    /\ mpc' = "pass1_done"
    /\ UNCHANGED <<notMiner, repoTotals, commits, push_runs, pr_runs, ci_runs, ci_index,
                   ci_covered_commits, ci_coverage_ratio, cidx, authors, run_i,
                   ci_status_totals, results, written, exit_code>>

\* lines 172-178: no commit in the window: results is written as it is
MinerWriteEmpty ==
    /\ mpc = "pass1_done"
    /\ total_commits = 0
    /\ written' = <<results>>
    /\ exit_code' = <<0>>
    /\ mpc' = "exited"
    /\ UNCHANGED <<notMiner, repoTotals, commits, total_commits, miner_target_shas, push_runs,
                   pr_runs, ci_runs, ci_index, ci_covered_commits, ci_coverage_ratio,
                   cidx, authors, run_i, ci_status_totals, results>>

\* lines 217-225: the push scan returns
MinerFetchPush ==
    /\ mpc = "pass1_done"
    /\ total_commits # 0
    /\ \E rs \in SeqsUpTo(RunsOfEvent("push"), MaxCiRuns) : push_runs' = rs
    /\ mpc' = "fetch_pr"
    /\ UNCHANGED <<notMiner, repoTotals, commits, total_commits, miner_target_shas, pr_runs, ci_runs,
                   ci_index, ci_covered_commits, ci_coverage_ratio, cidx, authors, run_i,
                   ci_status_totals, results, written, exit_code>>

\* lines 230-242: the pull_request scan returns; ci_runs = push_runs + pr_runs
MinerFetchPr ==
    /\ mpc = "fetch_pr"
    /\ \E rs \in SeqsUpTo(RunsOfEvent("pull_request"), MaxCiRuns - Len(push_runs)) :
          /\ pr_runs' = rs
          /\ ci_runs' = push_runs \o rs
    /\ mpc' = "summarize"
    /\ UNCHANGED <<notMiner, repoTotals, commits, total_commits, miner_target_shas, push_runs,
                   ci_index, ci_covered_commits, ci_coverage_ratio, cidx, authors, run_i,
                   ci_status_totals, results, written, exit_code>>

\* lines 217-238: a scan raises (requests error, HTTP error status, retries
\* exhausted); main() does not catch it
MinerFetchRaises ==
    /\ \/ mpc = "pass1_done" /\ total_commits # 0
       \/ mpc = "fetch_pr"
    /\ exit_code' = <<1>>
    /\ mpc' = "exited"
    /\ UNCHANGED <<notMiner, repoTotals, commits, total_commits, miner_target_shas, push_runs,
                   pr_runs, ci_runs, ci_index, ci_covered_commits, ci_coverage_ratio,
                   cidx, authors, run_i, ci_status_totals, results, written>>

\* lines 248-262: the index of the runs and the coverage metrics
MinerSummarize ==
    /\ mpc = "summarize"
    /\ ci_index' = summarize_runs_by_sha(ci_runs)
    /\ ci_covered_commits' = Cardinality(DOMAIN ci_index' \cap miner_target_shas)
    /\ ci_coverage_ratio' = IF total_commits > 0
                            THEN <<ci_covered_commits', total_commits>>
                            ELSE <<0, 1>>
    /\ cidx' = 1
    /\ mpc' = "pass2"
    /\ UNCHANGED <<notMiner, repoTotals, commits, total_commits, miner_target_shas, push_runs,
                   pr_runs, ci_runs, authors, run_i, ci_status_totals, results, written,
                   exit_code>>

\* lines 268-388: one commit of pass 2
MinerCommit ==
    /\ mpc = "pass2"
    /\ cidx <= Len(commits)
    /\ authors' = AddCommit(authors, commits[cidx], ci_index)
    /\ repo_total_insertions' = repo_total_insertions + OrZero(commits[cidx].insertions)
    /\ repo_total_deletions' = repo_total_deletions + OrZero(commits[cidx].deletions)
    /\ cidx' = cidx + 1
    /\ UNCHANGED <<notMiner, mpc, commits, total_commits, miner_target_shas, push_runs,
                   pr_runs, ci_runs, ci_index, ci_covered_commits, ci_coverage_ratio,
                   run_i, ci_status_totals, results, written, exit_code>>

\* lines 393-397: pass 2 is over, the repo-level loop starts
MinerPass2Done ==
    /\ mpc = "pass2"
    /\ cidx > Len(commits)
    /\ ci_status_totals' = <<>>
    /\ run_i' = 1
    /\ mpc' = "ci_totals"
    /\ UNCHANGED <<notMiner, repoTotals, commits, total_commits, miner_target_shas, push_runs,
                   pr_runs, ci_runs, ci_index, ci_covered_commits, ci_coverage_ratio,
                   cidx, authors, results, written, exit_code>>

\* lines 399-414: one run of the repo-level loop, its timestamp absent or parsed
MinerRunTally ==
    /\ mpc = "ci_totals"
    /\ run_i <= Len(ci_runs)
    /\ ~Truthy(RunStamp(ci_runs[run_i])) \/ FromIso(RunStamp(ci_runs[run_i])) # <<>>
    /\ ci_status_totals' = TallyRun(ci_status_totals, ci_runs[run_i])
    /\ run_i' = run_i + 1
    /\ UNCHANGED <<notMiner, repoTotals, mpc, commits, total_commits, miner_target_shas, push_runs,
                   pr_runs, ci_runs, ci_index, ci_covered_commits, ci_coverage_ratio,
                   cidx, authors, results, written, exit_code>>

\* lines 399-406: datetime.fromisoformat raises ValueError; main() ends with it
MinerRunBadTimestamp ==
    /\ mpc = "ci_totals"
    /\ run_i <= Len(ci_runs)
    /\ Truthy(RunStamp(ci_runs[run_i]))
    /\ FromIso(RunStamp(ci_runs[run_i])) = <<>>
    /\ ci_status_totals' = TallyRun(ci_status_totals, ci_runs[run_i])
    /\ exit_code' = <<1>>
    /\ mpc' = "exited"
    /\ UNCHANGED <<notMiner, repoTotals, commits, total_commits, miner_target_shas, push_runs,
                   pr_runs, ci_runs, ci_index, ci_covered_commits, ci_coverage_ratio,
                   cidx, authors, run_i, results, written>>

\* lines 419-506: the authors are finalized, repo_summary is built, the
\* report is written
MinerFinalize ==
    /\ mpc = "ci_totals"
    /\ run_i > Len(ci_runs)
    /\ results' =
         [ repo_name |-> results.repo_name,
           authors |-> [i \in 1..Len(authors) |-> Finalize(authors[i])],
           repo_summary |->
             [ total_commits |-> total_commits,
               total_insertions |-> repo_total_insertions,
               total_deletions |-> repo_total_deletions,
               total_ci_runs |-> Len(ci_runs),
               ci_status_totals |-> ci_status_totals,
               ci_covered_commits |-> ci_covered_commits,
               ci_coverage_ratio |-> ci_coverage_ratio,
               total_developers |-> Len(authors),
               total_prs |-> Cardinality(AllPrHeadShas(authors)) ] ]
    /\ written' = <<results'>>
    /\ exit_code' = <<0>>
    /\ mpc' = "exited"
    /\ UNCHANGED <<notMiner, repoTotals, commits, total_commits, miner_target_shas, push_runs,
                   pr_runs, ci_runs, ci_index, ci_covered_commits, ci_coverage_ratio,
                   cidx, authors, run_i, ci_status_totals>>

\* main() at line 155: the clone is there, results is initialised.
InitMiner ==
    /\ JobIdle
    /\ rpc = [r \in ReaderIds |-> "absent"]
    /\ GetIdle
    /\ ScanIdle
    /\ SumIdle
    /\ StreakIdle
    /\ PipeIdle
    /\ ConcIdle
    /\ mpc = "pass1"
    /\ commits \in CommitLogs
    /\ total_commits = 0
    /\ miner_target_shas = {}
    /\ push_runs = <<>>
    /\ pr_runs = <<>>
    /\ ci_runs = <<>>
    /\ ci_index = <<>>
    /\ ci_covered_commits = 0
    /\ ci_coverage_ratio = <<>>
    /\ cidx = 1
    /\ authors = <<>>
    /\ run_i = 1
    /\ ci_status_totals = <<>>
    /\ results = InitialResults
    /\ written = <<>>
    /\ exit_code = <<>>
    /\ repo_total_insertions = 0
    /\ repo_total_deletions = 0

NextMiner ==
    \/ MinerPass1
    \/ MinerWriteEmpty
    \/ MinerFetchPush
    \/ MinerFetchPr
    \/ MinerFetchRaises
    \/ MinerSummarize
    \/ MinerCommit
    \/ MinerPass2Done
    \/ MinerRunTally
    \/ MinerRunBadTimestamp
    \/ MinerFinalize

SpecMiner == InitMiner /\ [][NextMiner]_vars

(***************************************************************************)
(* miner.py: main() with its two calls of fetch_workflow_runs_covering     *)
(* executed page by page (the actions of the scanner), instead of each     *)
(* call being one step.                                                    *)
(***************************************************************************)
\* the commit logs of the miner runs that do the scans page by page
PipelineCommits ==
    << Commit("a", <<"Ann", "ann@x">>), Commit("b", <<None, None>>),
       Commit("c", <<"Ann", "ann@y">>) >>
PipelineLogs ==
    { log \in CommitLogs : \A i \in 1..Len(log) : log[i] = PipelineCommits[i] }

\* lines 163-170, 181-184: earliest author date of the window, as UTC instant
Earliest(log) ==
    LET ds == { log[i].author_date : i \in 1..Len(log) }
    IN  CHOOSE m \in ds : \A x \in ds : m <= x

\* github_ci.py lines 95-98: the locals of a new call of the scanner
ScanCalled ==
    /\ spc' = "loop"
    /\ page' = 1
    /\ all_runs' = <<>>
    /\ covered' = {}
    /\ runs' = <<>>
    /\ ridx' = 0
    /\ oldest' = <<>>
    /\ requested' = <<>>
    /\ stop_reason' = None

notPipe == <<jobVars, getVars, sumVars, streakVars, concVars>>

\* lines 181-225: cutoff_dt, HARD_PAGE_CAP, the push scan is called
PipeCallPush ==
    /\ mpc = "pass1_done"
    /\ total_commits # 0
    /\ target_shas' = miner_target_shas
    /\ cutoff_dt' = Earliest(commits)
    /\ \E cap \in 0..MaxPageCap : hard_page_cap' = cap
    /\ ScanCalled
    /\ mpc' = "scan_push"
    /\ UNCHANGED <<notPipe, repoTotals, pipeVars, commits, total_commits, miner_target_shas, push_runs,
                   pr_runs, ci_runs, ci_index, ci_covered_commits, ci_coverage_ratio, cidx,
                   authors, run_i, ci_status_totals, results, written, exit_code>>

\* lines 217-238: the push scan has returned push_runs, push_covered; the
\* pull_request scan is called with the same arguments
PipePushReturns ==
    /\ mpc = "scan_push"
    /\ spc = "returned"
    /\ push_runs' = all_runs
    /\ push_covered' = covered
    /\ push_requested' = requested
    /\ ScanCalled
    /\ mpc' = "scan_pr"
    /\ UNCHANGED <<notPipe, repoTotals, scanParams, commits, total_commits, miner_target_shas,
                   pr_runs, ci_runs, ci_index, ci_covered_commits, ci_coverage_ratio, cidx,
                   authors, run_i, ci_status_totals, results, written, exit_code>>

\* Mutant of PipePrReturns: main() goes on without waiting for the
\* pull_request scan to return.
PipePrReturns_NoWait ==
    /\ mpc = "scan_pr"
    /\ pr_runs' = all_runs
    /\ ci_runs' = push_runs \o all_runs
    /\ mpc' = "summarize"
    /\ UNCHANGED <<notPipe, repoTotals, scanVars, pipeVars, commits, total_commits, miner_target_shas,
                   push_runs, ci_index, ci_covered_commits, ci_coverage_ratio, cidx,
                   authors, run_i, ci_status_totals, results, written, exit_code>>

\* lines 230-246: the pull_request scan has returned; ci_runs = push_runs + pr_runs
PipePrReturns ==
    /\ mpc = "scan_pr"
    /\ spc = "returned"
    /\ pr_runs' = all_runs
    /\ ci_runs' = push_runs \o all_runs
    /\ mpc' = "summarize"
    /\ UNCHANGED <<notPipe, repoTotals, scanVars, pipeVars, commits, total_commits, miner_target_shas,
                   push_runs, ci_index, ci_covered_commits, ci_coverage_ratio, cidx,
                   authors, run_i, ci_status_totals, results, written, exit_code>>

\* lines 217-238: a scan has raised; main() does not catch the exception
PipeScanRaises ==
    /\ mpc \in {"scan_push", "scan_pr"}
    /\ spc = "raised"
    /\ exit_code' = <<1>>
    /\ mpc' = "exited"
    /\ UNCHANGED <<notPipe, repoTotals, scanVars, pipeVars, commits, total_commits, miner_target_shas,
                   push_runs, pr_runs, ci_runs, ci_index, ci_covered_commits,
                   ci_coverage_ratio, cidx, authors, run_i, ci_status_totals, results,
                   written>>

\* main() at line 155, no scan called yet
InitPipeline ==
    /\ JobIdle
    /\ rpc = [r \in ReaderIds |-> "absent"]
    /\ GetIdle
    /\ ScanIdle
    /\ SumIdle
    /\ StreakIdle
    /\ PipeIdle
    /\ ConcIdle
    /\ mpc = "pass1"
    /\ commits \in PipelineLogs
    /\ total_commits = 0
    /\ miner_target_shas = {}
    /\ push_runs = <<>>
    /\ pr_runs = <<>>
    /\ ci_runs = <<>>
    /\ ci_index = <<>>
    /\ ci_covered_commits = 0
    /\ ci_coverage_ratio = <<>>
    /\ cidx = 1
    /\ authors = <<>>
    /\ run_i = 1
    /\ ci_status_totals = <<>>
    /\ results = InitialResults
    /\ written = <<>>
    /\ exit_code = <<>>
    /\ repo_total_insertions = 0
    /\ repo_total_deletions = 0

NextPipeline ==
    \/ MinerPass1
    \/ MinerWriteEmpty
    \/ PipeCallPush
    \/ ScanRequestPage
    \/ ScanEmptyPage
    \/ ScanGetRaises
    \/ ScanCapReached
    \/ ScanRunSkipFork
    \/ ScanRunProcess
    \/ ScanRunBadTimestamp
    \/ ScanStopCovered
    \/ ScanStopCutoff
    \/ ScanNextPage
    \/ PipePushReturns
    \/ PipePrReturns
    \/ PipeScanRaises
    \/ MinerSummarize
    \/ MinerCommit
    \/ MinerPass2Done
    \/ MinerRunTally
    \/ MinerRunBadTimestamp
    \/ MinerFinalize

SpecPipeline == InitPipeline /\ [][NextPipeline]_vars

(***************************************************************************)
(* Two jobs side by side: analyze_repo, the worker threads and their miner *)
(* processes, which share the working directory BASE_DIR (views.py:181),   *)
(* hence the directory ./cloned_repos/<name> and its analytics.json.       *)
(***************************************************************************)
\* JOBS[job_id]["q"].put(line) for the job's own queue
ConcEnqueue(jobs, job_id, line) ==
    [jobs EXCEPT ![job_id].q = Append(@, line)]
\* the report a miner process writes: which process wrote it, the origin of
\* the clone it traversed, and whether the file holds the whole JSON text
Report(by, of, complete) == [by |-> by, of |-> of, complete |-> complete]
\* Repository.objects.get_or_create(owner_id, name, defaults={"url": url}),
\* then the URL is refreshed: the row after lines 258-267
RepoRow(owner_id, name, url) == [owner_id |-> owner_id, name |-> name, url |-> url]
Upsert(table, owner_id, name, url) ==
    { r \in table : ~(r.owner_id = owner_id /\ r.name = name) }
        \cup { RepoRow(owner_id, name, url) }
\* the directory of the job's miner process (miner.py:101-102)
Dest(j) == repo_name_from_url(job_args[j].repo.url)
\* candidate1 of the job's worker thread (views.py:201-202)
Candidate(j) == cloned_repos[job_args[j].repo.name].analytics

\* views.py lines 235-271 and 153-167: analyze_repo upserts the Repository
\* row, registers the job and starts its thread
\* (an invalid URL is answered with an error message and a redirect)
analyze_repo(j, sb_user_uuid, repo_url) ==
    /\ tpc[j] = "none"
    /\ IF ~AcceptedUrl(repo_url)
       THEN UNCHANGED <<repositories, job_args, JOBS, tpc>>
       ELSE /\ LET repo_name == _repo_name_from_url(repo_url)
               IN  /\ repositories' =
                         Upsert(repositories, sb_user_uuid, repo_name, repo_url)
                   /\ job_args' = [job_args EXCEPT ![j] =
                                     [repo |-> RepoRow(sb_user_uuid, repo_name, repo_url),
                                      sb_user_uuid |-> sb_user_uuid]]
            /\ JOBS' = [JOBS EXCEPT ![j] =
                          [q |-> <<>>, done |-> FALSE, ok |-> None, public_url |-> None]]
            /\ tpc' = [tpc EXCEPT ![j] = "start"]
    /\ UNCHANGED <<notConc, proc_code, mined_from, cloned_repos, bucket, uploaded,
                   analysis_rows>>

\* views.py lines 171-189: the first line is enqueued, the miner is started
ConcWorkerStart(j) ==
    /\ tpc[j] = "start"
    /\ JOBS' = ConcEnqueue(JOBS, j, "Starting analysis")
    /\ tpc' = [tpc EXCEPT ![j] = "m_clone"]
    /\ UNCHANGED <<notConc, repositories, job_args, proc_code, mined_from, cloned_repos,
                   bucket, uploaded, analysis_rows>>

\* miner.py lines 108-111: dest/.git exists, the clone is skipped and the
\* existing clone is fetched from its own origin
ConcMinerSkipClone(j) ==
    /\ tpc[j] = "m_clone"
    /\ cloned_repos[Dest(j)].git # <<>>
    /\ tpc' = [tpc EXCEPT ![j] = "m_mine"]
    /\ UNCHANGED <<notConc, JOBS, repositories, job_args, proc_code, mined_from,
                   cloned_repos, bucket, uploaded, analysis_rows>>

\* miner.py lines 112-115: git.Repo.clone_from(repoLink, dest) succeeds
ConcMinerClone(j) ==
    /\ tpc[j] = "m_clone"
    /\ cloned_repos[Dest(j)].git = <<>>
    /\ IsRepoUrl(job_args[j].repo.url)
    /\ cloned_repos' = [cloned_repos EXCEPT ![Dest(j)].git = <<job_args[j].repo.url>>]
    /\ tpc' = [tpc EXCEPT ![j] = "m_mine"]
    /\ UNCHANGED <<notConc, JOBS, repositories, job_args, proc_code, mined_from,
                   bucket, uploaded, analysis_rows>>

\* miner.py lines 116-120: clone_from raises, the error is printed and main()
\* goes on
ConcMinerCloneFails(j) ==
    /\ tpc[j] = "m_clone"
    /\ cloned_repos[Dest(j)].git = <<>>
    /\ tpc' = [tpc EXCEPT ![j] = "m_mine"]
    /\ UNCHANGED <<notConc, JOBS, repositories, job_args, proc_code, mined_from,
                   cloned_repos, bucket, uploaded, analysis_rows>>

\* miner.py lines 162-500: the passes over Repository(dest) and the scans;
\* the report is computed from whatever dest/.git holds
ConcMinerMine(j) ==
    /\ tpc[j] = "m_mine"
    /\ cloned_repos[Dest(j)].git # <<>>
    /\ mined_from' = [mined_from EXCEPT ![j] = cloned_repos[Dest(j)].git]
    /\ tpc' = [tpc EXCEPT ![j] = "m_open"]
    /\ UNCHANGED <<notConc, JOBS, repositories, job_args, proc_code, cloned_repos,
                   bucket, uploaded, analysis_rows>>

\* miner.py lines 162-500: an exception leaves main() (dest is no git
\* repository, or a request to the provider fails); the process exits non-zero
ConcMinerRaises(j) ==
    /\ tpc[j] = "m_mine"
    /\ proc_code' = [proc_code EXCEPT ![j] = <<1>>]
    /\ tpc' = [tpc EXCEPT ![j] = "wait"]
    /\ UNCHANGED <<notConc, JOBS, repositories, job_args, mined_from, cloned_repos,
                   bucket, uploaded, analysis_rows>>

\* miner.py lines 502-503: open(out_path, "w") truncates dest/analytics.json
ConcMinerOpen(j) ==
    /\ tpc[j] = "m_open"
    /\ cloned_repos' = [cloned_repos EXCEPT ![Dest(j)].analytics =
                          <<Report(j, mined_from[j][1], FALSE)>>]
    /\ tpc' = [tpc EXCEPT ![j] = "m_dump"]
    /\ UNCHANGED <<notConc, JOBS, repositories, job_args, proc_code, mined_from,
                   bucket, uploaded, analysis_rows>>

\* miner.py lines 504-506: json.dump and close; the process exits with 0.
\* When another process has opened the file since, the two texts overlay and
\* the file holds this process's whole text or not.
ConcMinerDump(j) ==
    /\ tpc[j] = "m_dump"
    /\ \E complete \in IF cloned_repos[Dest(j)].analytics[1].by = j
                       THEN {TRUE} ELSE {TRUE, FALSE} :
           cloned_repos' = [cloned_repos EXCEPT ![Dest(j)].analytics =
                              <<Report(j, mined_from[j][1], complete)>>]
    /\ proc_code' = [proc_code EXCEPT ![j] = <<0>>]
    /\ tpc' = [tpc EXCEPT ![j] = "wait"]
    /\ UNCHANGED <<notConc, JOBS, repositories, job_args, mined_from, bucket, uploaded,
                   analysis_rows>>

\* views.py lines 193-198: code != 0
ConcWorkerMinerFailed(j) ==
    /\ tpc[j] = "wait"
    /\ proc_code[j] # <<>> /\ proc_code[j][1] # 0
    /\ JOBS' = [ConcEnqueue(JOBS, j, "Miner exited with code")
                  EXCEPT ![j].done = TRUE, ![j].ok = "False"]
    /\ tpc' = [tpc EXCEPT ![j] = "finished"]
    /\ UNCHANGED <<notConc, repositories, job_args, proc_code, mined_from, cloned_repos,
                   bucket, uploaded, analysis_rows>>

\* views.py lines 193-215: code == 0; candidate1 is looked up under
\* repo.name and, when it exists, its present content is uploaded
ConcWorkerUpload(j) ==
    /\ tpc[j] = "wait"
    /\ proc_code[j] = <<0>>
    /\ IF Candidate(j) = <<>>
       THEN /\ JOBS' = [ConcEnqueue(JOBS, j, "analytics.json not found.")
                         EXCEPT ![j].done = TRUE, ![j].ok = "False"]
            /\ tpc' = [tpc EXCEPT ![j] = "finished"]
            /\ UNCHANGED <<bucket, uploaded>>
       ELSE LET object_name == ObjectName(job_args[j].sb_user_uuid, job_args[j].repo.name)
            IN  /\ bucket' = [bucket EXCEPT ![object_name] = Candidate(j)]
                /\ uploaded' = [uploaded EXCEPT ![j] = Candidate(j)]
                /\ JOBS' = [ConcEnqueue(JOBS, j, "Uploaded to Supabase")
                             EXCEPT ![j].public_url = object_name, ![j].ok = "True"]
                /\ tpc' = [tpc EXCEPT ![j] = "record"]
    /\ UNCHANGED <<notConc, repositories, job_args, proc_code, mined_from, cloned_repos,
                   analysis_rows>>

\* views.py lines 212-219: upload_json_to_supabase raises
ConcWorkerUploadFails(j) ==
    /\ tpc[j] = "wait"
    /\ proc_code[j] = <<0>>
    /\ Candidate(j) # <<>>
    /\ JOBS' = [ConcEnqueue(JOBS, j, "Upload failed")
                  EXCEPT ![j].done = TRUE, ![j].ok = "False"]
    /\ tpc' = [tpc EXCEPT ![j] = "finished"]
    /\ UNCHANGED <<notConc, repositories, job_args, proc_code, mined_from, cloned_repos,
                   bucket, uploaded, analysis_rows>>

\* views.py lines 222-232: the Analysis row, done, "DONE"
ConcWorkerRecord(j) ==
    /\ tpc[j] = "record"
    /\ analysis_rows' = Append(analysis_rows,
                               [user_id |-> job_args[j].sb_user_uuid,
                                repository |-> job_args[j].repo.name,
                                json_url |-> JOBS[j].public_url])
    /\ JOBS' = ConcEnqueue([JOBS EXCEPT ![j].done = TRUE], j, "DONE")
    /\ tpc' = [tpc EXCEPT ![j] = "finished"]
    /\ UNCHANGED <<notConc, repositories, job_args, proc_code, mined_from, cloned_repos,
                   bucket, uploaded>>

InitConc ==
    /\ JobIdle
    /\ rpc = [r \in ReaderIds |-> "absent"]
    /\ GetIdle
    /\ ScanIdle
    /\ SumIdle
    /\ StreakIdle
    /\ MinerIdle
    /\ PipeIdle
    /\ ConcIdle

NextConc ==
    \/ \E j \in JobIds, u \in Users, url \in RepoUrls : analyze_repo(j, u, url)
    \/ \E j \in JobIds : ConcWorkerStart(j)
    \/ \E j \in JobIds : ConcMinerSkipClone(j)
    \/ \E j \in JobIds : ConcMinerClone(j)
    \/ \E j \in JobIds : ConcMinerCloneFails(j)
    \/ \E j \in JobIds : ConcMinerMine(j)
    \/ \E j \in JobIds : ConcMinerRaises(j)
    \/ \E j \in JobIds : ConcMinerOpen(j)
    \/ \E j \in JobIds : ConcMinerDump(j)
    \/ \E j \in JobIds : ConcWorkerMinerFailed(j)
    \/ \E j \in JobIds : ConcWorkerUpload(j)
    \/ \E j \in JobIds : ConcWorkerUploadFails(j)
    \/ \E j \in JobIds : ConcWorkerRecord(j)

SpecConc == InitConc /\ [][NextConc]_vars

(***************************************************************************)
(* Properties of the job coordinator                                       *)
(***************************************************************************)
Last(s) == s[Len(s)]
IsData(e) == e.kind = "data"
IsFinished(e) == e.kind = "finished"
\* the lines of the data events of an event sequence, in order
DataLines(es) ==
    LET d == SelectSeq(es, IsData) IN [i \in 1..Len(d) |-> d[i].line]
WorkerEnded == wpc \in {"returned", "crashed"}
\* the miner exited non-zero, or exited 0 and left no report
MiningFailed == code # <<>> /\ (code[1] # 0 \/ candidate_exists = PyFalse)
MiningFailedMsg == IF code[1] # 0 THEN MinerExitedMsg(code[1]) ELSE NotFoundMsg
\* upload_json_to_supabase was called and raised
UploadRaised == upload_attempted /\ url_local = None

\* C1 (as claimed): once the worker has returned and the single reader has
\* ended, the reader's data events are exactly the lines the worker enqueued,
\* in order, followed by exactly one finished event and nothing after it.
C1_AllLinesThenFinished ==
    (wpc = "returned" /\ rpc[1] = "ended") =>
        /\ DataLines(events[1]) = emitted
        /\ Len(SelectSeq(events[1], IsFinished)) = 1
        /\ IsFinished(Last(events[1]))

\* C2 (as claimed): every execution of the worker thread sets the done flag,
\* so the worker never ends (by return or by an uncaught exception) with
\* done still False.
C2_WorkerEndSetsDone == WorkerEnded => done

\* C3: the terminal state is absorbing: once done is True, done, ok and
\* public_url never change again.
C3_TerminalAbsorbing ==
    [][done => (done' /\ ok' = ok /\ public_url' = public_url)]_vars
\* the success path, where the worker still acts (enqueues "DONE") after done
C3_Witness == done /\ ok = PyTrue /\ wpc = "returned" /\ Len(emitted) > done_at

\* C4: whenever done is True, ok is a boolean and public_url is non-null
\* exactly when ok is True; every finished event carries such a payload.
C4_DoneResultShape ==
    /\ done => /\ ok \in {PyTrue, PyFalse}
               /\ (public_url # None) <=> (ok = PyTrue)
    /\ \A r \in ReaderIds : \A i \in 1..Len(events[r]) :
          IsFinished(events[r][i]) =>
              /\ events[r][i].ok \in {PyTrue, PyFalse}
              /\ (events[r][i].public_url # None) <=> (events[r][i].ok = PyTrue)
C4_Witness ==
    /\ done
    /\ \E i \in 1..Len(events[1]) :
          IsFinished(events[1][i]) /\ events[1][i].ok = PyTrue

\* C5: after a non-zero exit, or exit 0 without the report file, the upload is
\* never attempted, the worker does not crash, it returns exactly with done set,
\* and from the moment done is set ok is False, public_url is None and the last
\* line enqueued (already enqueued when done was set) is the descriptive message.
C5_MiningFailureEndsJob ==
    MiningFailed =>
        /\ ~upload_attempted
        /\ wpc # "crashed"
        /\ (wpc = "returned") <=> done
        /\ done => /\ ok = PyFalse
                   /\ public_url = None
                   /\ done_at = Len(emitted)
                   /\ Last(emitted) = MiningFailedMsg
C5_Witness ==
    /\ MiningFailed /\ code[1] = 0 /\ done /\ wpc = "returned"
    /\ Last(emitted) = NotFoundMsg

\* C6: when the upload raises after a successful mining run, no Analysis row
\* is created, the worker does not crash, it returns exactly with done set, and
\* from the moment done is set ok is False, public_url is None and the last
\* line enqueued (already enqueued when done was set) is "Upload failed: ...".
C6_UploadFailureEndsJob ==
    UploadRaised =>
        /\ code = <<0>> /\ candidate_exists = PyTrue
        /\ analyses = <<>>
        /\ public_url = None
        /\ wpc \notin {"crashed", "create", "set_done", "enq_done"}
        /\ (wpc = "returned") <=> done
        /\ done => /\ ok = PyFalse
                   /\ done_at = Len(emitted)
                   /\ Last(emitted) = UploadFailedMsg
C6_Witness == UploadRaised /\ done /\ wpc = "returned"

(***************************************************************************)
(* Properties of _get                                                      *)
(***************************************************************************)
IsBackoff(sl) == sl.kind = "backoff"
IsResetWait(sl) == sl.kind = "reset"
NumBackoffs == Len(SelectSeq(gsleeps, IsBackoff))
NumResetWaits == Len(SelectSeq(gsleeps, IsResetWait))
Retryable(st) == st = 403 \/ Is5xx(st)
\* non-2xx, neither 403 nor 5xx
OtherNon2xx(st) == ~(200 <= st /\ st < 300) /\ ~Retryable(st)
\* 4xx other than 403
Other4xx(st) == 400 <= st /\ st < 500 /\ st # 403

\* C7: _get issues at most max_retries requests, one per loop iteration; it
\* ends by returning a response whose status is no error status (never None,
\* never 403 or 5xx) or by raising; when all max_retries attempts were answered
\* 403 or 5xx the only step left is the final raise.
C7_GetBoundedAndTotal ==
    /\ grequests <= max_retries
    /\ gi <= max_retries
    /\ gpc \in {"loop", "returned", "raised"}
    /\ gpc = "loop" => gi = grequests /\ Len(gstatuses) = gi
    /\ gpc = "returned" =>
          /\ gresult # <<>>
          /\ ~IsErrorStatus(gresult[1].status)
          /\ ~Retryable(gresult[1].status)
          /\ gresult[1].status = gstatuses[Len(gstatuses)]
    /\ gpc = "raised" => gresult = <<>> /\ gcause \in {"network", "status", "exhausted"}
    /\ (Len(gstatuses) = max_retries /\ \A k \in 1..Len(gstatuses) : Retryable(gstatuses[k]))
          => \/ gpc = "raised" /\ gcause = "exhausted"
             \/ gpc = "loop" /\ ENABLED GetExhausted /\ ~ENABLED GetReturn
C7_Witness ==
    /\ gpc = "raised" /\ gcause = "exhausted"
    /\ max_retries >= 2 /\ grequests = max_retries

\* C8 (as claimed): a rate-limit wait consumes none of the max_retries
\* attempts: while the call runs, the attempts consumed are exactly the
\* failures handled by backoff, however many rate-limit waits there were.
C8_WaitKeepsBudget == gpc = "loop" => gi = NumBackoffs

\* C9 (as claimed): a response with a status outside 2xx that is neither 403
\* nor 5xx ends the call at once with an error: no sleep for that attempt, no
\* further request.
C9_OtherNon2xxFails ==
    (gstatuses # <<>> /\ OtherNon2xx(gstatuses[Len(gstatuses)])) =>
        /\ gpc = "raised" /\ gcause = "status"
        /\ Len(gsleeps) = Len(gstatuses) - 1

\* C9 (amended): a response with a 4xx status other than 403 ends the call at
\* once with an error: no sleep for that attempt (every earlier attempt slept
\* once), no further request, nothing returned.
C9_Other4xxFails ==
    (gstatuses # <<>> /\ Other4xx(gstatuses[Len(gstatuses)])) =>
        /\ gpc = "raised" /\ gcause = "status"
        /\ gresult = <<>>
        /\ Len(gsleeps) = Len(gstatuses) - 1
        /\ grequests = Len(gstatuses)
C9_Witness ==
    /\ Len(gstatuses) >= 2
    /\ gstatuses[Len(gstatuses)] = 404
    /\ gpc = "raised"

(***************************************************************************)
(* Properties of fetch_workflow_runs_covering                              *)
(***************************************************************************)
\* C10: at every point of the scan and in its result, covered is a subset of
\* target_shas, and every covered SHA is the head_sha of a run fetched so far
\* that passed the fork filter.
C10_CoveredWithinTarget ==
    /\ covered \subseteq target_shas
    /\ \A sha \in covered :
          \E k \in 1..Len(all_runs) :
              all_runs[k].head_sha = sha /\ ~IsForkRun(all_runs[k])
\* the scan returned with a covered SHA, having processed a run of the
\* repository itself whose SHA is no target
C10_Witness ==
    /\ spc = "returned"
    /\ covered # {}
    /\ \E k \in 1..Len(all_runs) :
          /\ all_runs[k].head_sha \in ProviderShas \ target_shas
          /\ ~IsForkRun(all_runs[k])

\* C11: the scan requests at most hard_page_cap pages, numbered 1, 2, ... in
\* increasing order and each once; when the loop ends on the cap exactly
\* hard_page_cap pages were requested and the scan returns; with
\* hard_page_cap = 0 no page is requested and the result is empty.
C11_PageCapBoundsRequests ==
    /\ Len(requested) <= hard_page_cap
    /\ \A k \in 1..Len(requested) : requested[k] = k
    /\ stop_reason = "cap" => spc = "returned" /\ Len(requested) = hard_page_cap
    /\ hard_page_cap = 0 =>
          /\ requested = <<>> /\ all_runs = <<>> /\ covered = {}
          /\ spc \in {"loop", "returned"}
\* the cap ended a scan in which every page was non-empty, coverage stayed
\* incomplete and no page was older than the cutoff
C11_Witness ==
    /\ spc = "returned" /\ stop_reason = "cap"
    /\ hard_page_cap >= 2
    /\ Len(requested) = hard_page_cap
    /\ ~(target_shas \subseteq covered)

\* C12 (as claimed): every run in the returned run list has a head repository
\* that is absent or equal to owner/repo.
C12_NoForkRunsReturned ==
    spc = "returned" => \A k \in 1..Len(all_runs) : ~IsForkRun(all_runs[k])

(***************************************************************************)
(* Properties of summarize_runs_by_sha                                     *)
(***************************************************************************)
\* the positions of the runs of rs whose head_sha is sha
RunsOfSha(rs, sha) == { k \in 1..Len(rs) : Get(rs[k], "head_sha") = sha }
\* the runs processed so far
Processed == SubSeq(workflow_runs, 1, sumidx - 1)
AllShaValues == { Get(r, "head_sha") : r \in SumRuns }
\* updated_at, else created_at, of a run or of a latest_run projection
TsOf(r) == Or(Get(r, "updated_at"), Get(r, "created_at"))

\* C13: after every iteration, and in the returned value, the runs_count of a
\* SHA is the number of processed runs with that head_sha; a SHA without run
\* has no entry, and runs with a missing or empty head_sha make no entry.
C13_RunsCountPerSha ==
    /\ \A sha \in DOMAIN by_sha :
          /\ Truthy(sha)
          /\ by_sha[sha].runs_count = Cardinality(RunsOfSha(Processed, sha))
    /\ \A sha \in AllShaValues :
          (Truthy(sha) /\ RunsOfSha(Processed, sha) # {}) => sha \in DOMAIN by_sha
    /\ \A sha \in DOMAIN by_sha : RunsOfSha(Processed, sha) # {}
C13_Witness ==
    /\ sumpc = "returned"
    /\ "a" \in DOMAIN by_sha /\ by_sha["a"].runs_count = 2
    /\ \E k \in 1..Len(workflow_runs) : ~Truthy(Get(workflow_runs[k], "head_sha"))

\* C14 (as claimed): in the returned value, the latest_run of every SHA has a
\* timestamp (updated_at, else created_at) greater than or equal to that of
\* every run of the SHA that has a timestamp.
C14_LatestIsMostRecent ==
    sumpc = "returned" =>
        \A sha \in DOMAIN by_sha : \A k \in RunsOfSha(workflow_runs, sha) :
            Truthy(TsOf(workflow_runs[k])) =>
                /\ by_sha[sha].latest_run # <<>>
                /\ Truthy(TsOf(by_sha[sha].latest_run[1]))
                /\ ~StrGreater(TsOf(workflow_runs[k]), TsOf(by_sha[sha].latest_run[1]))

\* C15 (as claimed): once a SHA has a latest_run, a run of that SHA with
\* neither updated_at nor created_at never replaces it.
C15_UntimedNeverReplaces ==
    [][ ( /\ sumpc = "loop" /\ sumidx <= Len(workflow_runs)
          /\ Get(workflow_runs[sumidx], "head_sha") \in DOMAIN by_sha
          /\ ~Truthy(TsOf(workflow_runs[sumidx])) )
        => by_sha'[Get(workflow_runs[sumidx], "head_sha")].latest_run
             = by_sha[Get(workflow_runs[sumidx], "head_sha")].latest_run ]_vars

(***************************************************************************)
(* Properties of compute_average_streak                                    *)
(***************************************************************************)
\* the number of maximal runs of consecutive days in the sorted list dates
NumStreaks(dates) ==
    1 + Cardinality({i \in 1..(Len(dates) - 1) : dates[i + 1] # dates[i] + 1})

\* C20: for a sorted list of n >= 1 distinct dates compute_average_streak
\* returns n divided by the number of maximal runs of consecutive days, the
\* streak lengths summing to n; it returns 0.0 for the empty list and 2.0
\* for days 1, 2, 3, 10; the copy of backend/miner.py returns the same.
C20_AverageStreak ==
    stpc = "returned" =>
        LET n == Len(unique_dates_sorted)
        IN  /\ n = 0 => sresult = <<0, 1>>
            /\ n >= 1 => /\ sresult = <<n, NumStreaks(unique_dates_sorted)>>
                         /\ SumSeq(streaks) = n
                         /\ Len(streaks) = NumStreaks(unique_dates_sorted)
            /\ unique_dates_sorted = <<1, 2, 3, 10>> => RatEq(sresult, <<2, 1>>)
            /\ sresult = backend_compute_average_streak(unique_dates_sorted)

C20_Witness ==
    /\ stpc = "returned"
    /\ unique_dates_sorted = <<1, 2, 3, 10>>
    /\ streaks = <<3, 1>>
    /\ sresult = <<4, 2>>

(***************************************************************************)
(* Properties of the miner                                                 *)
(***************************************************************************)
\* the field k of repo_summary in the report rep: <<value>>, <<>> when absent
SummaryField(rep, k) ==
    IF "repo_summary" \in DOMAIN rep /\ k \in DOMAIN rep.repo_summary
    THEN <<rep.repo_summary[k]>>
    ELSE <<>>

\* the target SHAs that are the head_sha of a collected run
CoveredTargets ==
    { h \in miner_target_shas : \E i \in 1..Len(ci_runs) : Get(ci_runs[i], "head_sha") = h }

\* C16: every outcome tally has keys only in the fixed set of conclusions:
\* the per-SHA conclusions_tally, every author's ci_conclusions_totals and
\* the repository-level ci_status_totals, in the locals and in the report.
C16_TalliesFixedKeys ==
    /\ \A sha \in DOMAIN ci_index : DOMAIN ci_index[sha].conclusions_tally \subseteq TallyKeys
    /\ \A i \in 1..Len(authors) : DOMAIN authors[i].ci_conclusions_totals \subseteq TallyKeys
    /\ DOMAIN ci_status_totals \subseteq TallyKeys
    /\ \A t \in 1..Len(written) :
          /\ \A i \in 1..Len(written[t].authors) :
                DOMAIN written[t].authors[i].ci_conclusions_totals \subseteq TallyKeys
          /\ \A v \in 1..Len(SummaryField(written[t], "ci_status_totals")) :
                DOMAIN SummaryField(written[t], "ci_status_totals")[v] \subseteq TallyKeys

\* C17: when pass 1 finds no commit, the miner ends with exit code 0 and has
\* written a report whose total_commits is 0 and whose authors list is empty.
C17_EmptyWindowReport ==
    (mpc = "exited" /\ commits = <<>>) =>
        /\ exit_code = <<0>>
        /\ written # <<>>
        /\ written[1].authors = <<>>
        /\ SummaryField(written[1], "total_commits") = <<0>>

\* C18: in every report written, ci_coverage_ratio is 0.0 when total_commits
\* is 0, and otherwise ci_covered_commits / total_commits with
\* 0 <= ci_covered_commits <= total_commits, ci_covered_commits counting
\* only target SHAs.
C18_CoverageRatio ==
    written # <<>> =>
        /\ total_commits = 0 => SummaryField(written[1], "ci_coverage_ratio") = << <<0, 1>> >>
        /\ total_commits > 0 =>
              /\ SummaryField(written[1], "total_commits") = <<total_commits>>
              /\ SummaryField(written[1], "ci_covered_commits") = <<Cardinality(CoveredTargets)>>
              /\ Cardinality(CoveredTargets) <= total_commits
              /\ SummaryField(written[1], "ci_coverage_ratio")
                    = << <<Cardinality(CoveredTargets), total_commits>> >>

\* the commits pass 2 has attributed to bucket b whose CI summary has a
\* latest_run of event pull_request
PrHeadsOf(b) ==
    { commits[k].hash : k \in { n \in 1..(cidx - 1) :
          /\ AuthorKey(commits[n]) = <<b.name, b.email>>
          /\ commits[n].hash \in DOMAIN ci_index
          /\ ci_index[commits[n].hash].latest_run # <<>>
          /\ ci_index[commits[n].hash].latest_run[1].event = "pull_request" } }

\* C19: the pr_head_shas of distinct author buckets are pairwise disjoint; a
\* hash is in the set of an author iff the commit was attributed to that
\* author and the latest_run of its CI summary has event pull_request; the
\* report's total_prs is the sum of the authors' pr_count.
C19_PrHeadsDisjoint ==
    /\ \A i, j \in 1..Len(authors) :
          i # j => authors[i].pr_head_shas \cap authors[j].pr_head_shas = {}
    /\ \A i \in 1..Len(authors) : authors[i].pr_head_shas = PrHeadsOf(authors[i])
    /\ \A t \in 1..Len(written) : \A v \in 1..Len(SummaryField(written[t], "total_prs")) :
          SummaryField(written[t], "total_prs")[v]
             = SumSeq([i \in 1..Len(written[t].authors) |-> written[t].authors[i].pr_count])

C19_Witness ==
    /\ mpc = "exited"
    /\ written # <<>>
    /\ Len(written[1].authors) = 2
    /\ written[1].authors[1].pr_count = 1
    /\ written[1].authors[2].pr_count = 1
    /\ SummaryField(written[1], "total_prs") = <<2>>

(***************************************************************************)
(* Properties of the progress stream                                       *)
(***************************************************************************)
IsPrefix(s, t) == Len(s) <= Len(t) /\ SubSeq(t, 1, Len(s)) = s

\* C22: for the single reader of a job, the lines of the data events it has
\* yielded so far are at every moment a prefix of the lines the worker has
\* enqueued (each stripped of trailing whitespace), and what is still in the
\* queue is the rest: nothing is reordered, duplicated or invented.
C22_EventsPrefixOfEnqueued ==
    /\ IsPrefix(DataLines(events[1]), emitted)
    /\ DataLines(events[1]) \o q = emitted
    /\ \A i \in 1..Len(emitted) : RStrip(emitted[i]) = emitted[i]

C22_Witness ==
    /\ wpc = "read"
    /\ Len(DataLines(events[1])) >= 2
    /\ q # <<>>
    /\ Len(emitted) = Len(DataLines(events[1])) + Len(q)


\* C30: the worker never blocks on the job queue: whatever the reader has
\* done so far (nothing at all, or any number of events), and however long
\* the queue is, the worker's next statement can be executed until the
\* worker has ended, and a line of the miner's output can be enqueued.
C30_WorkerNeverBlocks ==
    /\ ~WorkerEnded => ENABLED WorkerNext
    /\ (wpc = "read" /\ nlines < MaxMinerLines) => ENABLED WorkerReadLine
    /\ Len(emitted) = Len(DataLines(events[1])) + Len(q)

\* the worker has run to its end with the reader never having taken a step
C30_Witness ==
    /\ wpc = "returned"
    /\ done /\ ok = PyTrue
    /\ nlines = MaxMinerLines
    /\ rpc[1] = "start" /\ events[1] = <<>>
    /\ q = emitted
    /\ Last(emitted) = DoneMsg


(***************************************************************************)
(* Properties of the backoff of _get                                       *)
(***************************************************************************)
\* the sleeps made for attempt k
SleepsOfAttempt(k) == { s \in 1..Len(gsleeps) : gsleeps[s].attempt = k }

\* C27: the k-th attempt that is answered 5xx, or 403 without the
\* rate-limit signal, consumes one attempt and is followed by one sleep of
\* exactly base_sleep * k seconds; no other duration is used for backoff;
\* attempts failing one after the other from the first sleep base, 2 * base,
\* 3 * base, ...
C27_LinearBackoff ==
    /\ \A s \in 1..Len(gsleeps) :
          IsBackoff(gsleeps[s]) =>
             /\ gsleeps[s].attempt \in 1..max_retries
             /\ gsleeps[s].secs = base_sleep * gsleeps[s].attempt
             /\ Retryable(gstatuses[gsleeps[s].attempt])
    /\ \A k \in 1..Len(gstatuses) :
          Is5xx(gstatuses[k]) =>
             /\ Cardinality(SleepsOfAttempt(k)) = 1
             /\ \A s \in SleepsOfAttempt(k) : IsBackoff(gsleeps[s])
    /\ \A k \in 1..Len(gstatuses) :
          gstatuses[k] = 403 =>
             /\ Cardinality(SleepsOfAttempt(k)) = 1
             /\ \A s \in SleepsOfAttempt(k) : IsBackoff(gsleeps[s]) \/ IsResetWait(gsleeps[s])
    /\ gpc = "loop" => gi = NumBackoffs + NumResetWaits
    /\ NumResetWaits = 0 =>
          \A j \in 1..NumBackoffs : SelectSeq(gsleeps, IsBackoff)[j].secs = base_sleep * j

C27_Witness ==
    /\ NumResetWaits = 0
    /\ NumBackoffs = 3
    /\ gstatuses[1] = 503 /\ gstatuses[2] = 403 /\ gstatuses[3] = 500
    /\ gsleeps[1].secs = base_sleep
    /\ gsleeps[2].secs = 2 * base_sleep
    /\ gsleeps[3].secs = 3 * base_sleep


\* C28 (as claimed): a run whose timestamp (updated_at, else created_at)
\* equals the timestamp of the current latest_run of its SHA does not
\* replace it.
C28_TieKeepsFirst ==
    [][ ( /\ sumpc = "loop" /\ sumidx <= Len(workflow_runs)
          /\ Get(workflow_runs[sumidx], "head_sha") \in DOMAIN by_sha
          /\ by_sha[Get(workflow_runs[sumidx], "head_sha")].latest_run # <<>>
          /\ Truthy(TsOf(workflow_runs[sumidx]))
          /\ TsOf(workflow_runs[sumidx])
                = TsOf(by_sha[Get(workflow_runs[sumidx], "head_sha")].latest_run[1]) )
        => by_sha'[Get(workflow_runs[sumidx], "head_sha")].latest_run
             = by_sha[Get(workflow_runs[sumidx], "head_sha")].latest_run ]_vars


(***************************************************************************)
(* Properties of the stops of the coverage scanner                         *)
(***************************************************************************)
ScanEnded == spc \in {"returned", "raised"}
\* a page is requested in this step
Requests == requested' # requested
\* a page after the first is requested only while a target SHA is uncovered,
\* and the end of a page with full coverage ends the scan
StopsWhenCovered ==
    /\ (Requests /\ requested # <<>>) => ~(target_shas \subseteq covered)
    /\ (spc = "endpage" /\ target_shas \subseteq covered)
          => (spc' = "returned" /\ ~Requests /\ all_runs' = all_runs)

\* C25 (as claimed): no further page is requested once, at the end of a
\* non-empty page, covered contains every target SHA; with an empty target
\* set exactly page 1 is requested.
C25_StopsWhenCovered ==
    [][ /\ StopsWhenCovered
        /\ (target_shas = {} /\ ScanEnded') => requested' = <<1>> ]_vars

\* C25 (amended): the same, but with an empty target set exactly page 1 is
\* requested only if hard_page_cap >= 1; with hard_page_cap = 0 no page is
\* requested at all.
C25_StopsWhenCoveredWithinCap ==
    [][ /\ StopsWhenCovered
        /\ (target_shas = {} /\ ScanEnded')
              => requested' = IF hard_page_cap >= 1 THEN <<1>> ELSE <<>> ]_vars

C25_Witness ==
    /\ spc = "returned"
    /\ stop_reason = "covered"
    /\ target_shas = {"a", "b"}
    /\ requested = <<1, 2>>
    /\ all_runs # <<>>

\* the oldest instant among the timestamps of the retained runs of the
\* page: <<>> if none has one
PageOldest ==
    LET ts == { FromIso(RunTs(runs[k]))[1] :
                  k \in { n \in 1..Len(runs) : /\ ~IsForkRun(runs[n])
                                                /\ RunTs(runs[n]) # None
                                                /\ FromIso(RunTs(runs[n])) # <<>> } }
    IN  IF ts = {} THEN <<>> ELSE <<CHOOSE m \in ts : \A x \in ts : m <= x>>
\* the page just processed is the end of all_runs
PageInResult == SubSeq(all_runs, Len(all_runs) - Len(runs) + 1, Len(all_runs)) = runs

\* C26: the scan stops after the first empty page and after the first page
\* whose oldest timestamp among the retained runs is strictly earlier than
\* cutoff_dt, the runs of that page being part of the result; a page whose
\* oldest timestamp equals the cutoff, or without timestamps, does not
\* trigger the cutoff stop.
C26_StopsAtCutoffOrEmpty ==
    [][ /\ (Requests /\ runs' = <<>> /\ spc' # "raised")
              => (spc' = "returned" /\ stop_reason' = "empty" /\ all_runs' = all_runs)
        /\ spc = "endpage" =>
              /\ oldest = PageOldest
              /\ PageInResult
              /\ ~Requests
              /\ (oldest # <<>> /\ oldest[1] < cutoff_dt)
                    => (spc' = "returned" /\ all_runs' = all_runs)
              /\ (oldest = <<>> \/ oldest[1] >= cutoff_dt)
                    => /\ stop_reason' # "cutoff"
                       /\ ~(target_shas \subseteq covered) => (spc' = "loop" /\ page' = page + 1)
        /\ ScanEnded => ~Requests ]_vars

C26_Witness ==
    /\ spc = "returned"
    /\ stop_reason = "cutoff"
    /\ requested = <<1, 2>>
    /\ Len(all_runs) >= 2
    /\ PageInResult
    /\ oldest = <<1>>


\* the commit hash is the head_sha of a collected run
HasCollectedRun(hash) == \E i \in 1..Len(ci_runs) : Get(ci_runs[i], "head_sha") = hash
\* Counter lookup: a missing key counts 0
CounterGet(c, k) == IF k \in DOMAIN c THEN c[k] ELSE 0
\* the sum over the commit records recs of the per-SHA tally of k of the
\* commits that have runs
RECURSIVE TallySum(_, _)
TallySum(recs, k) ==
    IF recs = <<>> THEN 0
    ELSE (IF Head(recs).ci.has_actions_runs THEN ci_index[Head(recs).hash].conclusions_tally[k]
          ELSE 0) + TallySum(Tail(recs), k)

\* C29: every commit record of pass 2 has a ci field that is the per-SHA
\* summary (has_actions_runs = True) when the hash is the head_sha of a
\* collected run and exactly the marker {has_actions_runs: False} otherwise;
\* an author's ci_conclusions_totals is the sum of the per-SHA tallies of
\* the author's commits that have runs.
C29_CiFieldAndTotals ==
    \A i \in 1..Len(authors) :
        /\ \A n \in 1..Len(authors[i].commits) :
              LET rec == authors[i].commits[n]
              IN  IF HasCollectedRun(rec.hash)
                  THEN /\ rec.hash \in DOMAIN ci_index
                       /\ rec.ci = ci_index[rec.hash]
                       /\ rec.ci.has_actions_runs
                       /\ rec.ci.runs_count >= 1
                  ELSE /\ DOMAIN rec.ci = {"has_actions_runs"}
                       /\ ~rec.ci.has_actions_runs
        /\ \A k \in TallyKeys \cup DOMAIN authors[i].ci_conclusions_totals :
              /\ k \in TallyKeys
              /\ CounterGet(authors[i].ci_conclusions_totals, k)
                    = TallySum(authors[i].commits, k)

C29_Witness ==
    /\ mpc = "exited"
    /\ written # <<>>
    /\ Len(written[1].authors) = 1
    /\ Len(written[1].authors[1].commits) = 2
    /\ written[1].authors[1].commits[1].ci.has_actions_runs
    /\ ~written[1].authors[1].commits[2].ci.has_actions_runs
    /\ CounterGet(written[1].authors[1].ci_conclusions_totals, "success") = 2


(***************************************************************************)
(* Properties of the phases of a miner run                                 *)
(***************************************************************************)
\* the phases in their order, and the steps from one to the next
PhaseSteps ==
    { <<"pass1", "pass1_done">>, <<"pass1_done", "exited">>, <<"pass1_done", "scan_push">>,
      <<"scan_push", "scan_pr">>, <<"scan_push", "exited">>, <<"scan_pr", "summarize">>,
      <<"scan_pr", "exited">>, <<"summarize", "pass2">>, <<"pass2", "ci_totals">>,
      <<"ci_totals", "exited">> }
\* pass 1 has visited every commit of the window
Pass1Complete ==
    /\ total_commits = Len(commits)
    /\ miner_target_shas = { commits[i].hash : i \in 1..Len(commits) }
\* a page is requested from the provider in this step
RequestsPage == Len(requested') = Len(requested) + 1
\* what holds in each phase
PhaseState ==
    /\ mpc \in {"pass1", "pass1_done"} =>
          spc = "idle" /\ requested = <<>> /\ push_requested = <<>>
    /\ mpc = "scan_push" =>
          push_requested = <<>> /\ push_runs = <<>> /\ pr_runs = <<>> /\ authors = <<>>
    /\ mpc = "scan_pr" =>
          pr_runs = <<>> /\ ci_index = <<>> /\ authors = <<>> /\ cidx = 1
    /\ (mpc \in {"summarize", "pass2", "ci_totals"} \/ authors # <<>>) =>
          /\ spc = "returned"
          /\ pr_runs = all_runs
          /\ ci_runs = push_runs \o pr_runs
    /\ (written # <<>> /\ commits # <<>>) =>
          /\ cidx > Len(commits)
          /\ run_i > Len(ci_runs)
          /\ ci_index = summarize_runs_by_sha(ci_runs)
    /\ commits = <<>> =>
          spc = "idle" /\ requested = <<>> /\ push_requested = <<>>

\* C24: the phases of a miner run occur in the order pass 1, push scan,
\* pull_request scan, summarization, pass 2, finalize and write: a CI page
\* is requested only after pass 1 has visited every commit, a pull_request
\* page only after the push scan has returned, pass 2 runs only after both
\* scans have returned, and with zero commits no CI page is requested.
C24_PhaseOrder ==
    [][ /\ mpc' # mpc => <<mpc, mpc'>> \in PhaseSteps
        /\ RequestsPage =>
              /\ mpc \in {"scan_push", "scan_pr"}
              /\ Pass1Complete /\ total_commits > 0
              /\ UNCHANGED <<push_runs, push_covered, push_requested>>
        /\ (cidx' # cidx \/ authors' # authors) => (mpc = "pass2" /\ spc = "returned")
        /\ PhaseState' ]_vars

C24_Witness ==
    /\ mpc = "exited"
    /\ written # <<>>
    /\ Len(written[1].authors) = 2
    /\ push_requested = <<1, 2>>
    /\ requested # <<>>
    /\ Len(push_runs) >= 2


\* C23: a workflow run whose timestamp does not parse does not abort the
\* pipeline: unless a request to the provider failed, a miner run that has
\* ended has written its report.
C23_BadTimestampDoesNotAbort ==
    (mpc = "exited" /\ stop_reason # "get_raised") => written # <<>>


(***************************************************************************)
(* Properties of two concurrent jobs                                       *)
(***************************************************************************)
\* C21: the report a job uploads is the one its own miner process wrote, in
\* full, from a clone of the job's own repository URL.
C21_UploadsOwnReport ==
    \A j \in JobIds :
        uploaded[j] # <<>> =>
            uploaded[j][1] = Report(j, job_args[j].repo.url, TRUE)


(***************************************************************************)
(* Properties of two readers of one job                                    *)
(***************************************************************************)
\* c is an interleaving of a and b
RECURSIVE IsMerge(_, _, _)
IsMerge(a, b, c) ==
    IF c = <<>> THEN a = <<>> /\ b = <<>>
    ELSE \/ a # <<>> /\ Head(a) = Head(c) /\ IsMerge(Tail(a), b, Tail(c))
         \/ b # <<>> /\ Head(b) = Head(c) /\ IsMerge(a, Tail(b), Tail(c))
FinishedOf(r) == SelectSeq(events[r], IsFinished)

\* C31: with two readers on one job, every enqueued line is yielded as a
\* data event by at most one of them (the two readers' data lines interleave
\* to the lines taken from the queue, nothing is replayed); a reader emits
\* one finished event, as its last event, exactly when it has ended, and the
\* finished events of the two readers carry the same ok and public_url.
C31_TwoReadersShareLines ==
    /\ LET taken == SubSeq(emitted, 1, Len(emitted) - Len(q))
       IN  /\ taken \o q = emitted
           /\ Len(DataLines(events[1])) + Len(DataLines(events[2])) = Len(taken)
           /\ IsMerge(DataLines(events[1]), DataLines(events[2]), taken)
    /\ \A r \in ReaderIds :
          /\ Len(FinishedOf(r)) = IF rpc[r] = "ended" THEN 1 ELSE 0
          /\ rpc[r] = "ended" => (done /\ IsFinished(Last(events[r])))
    /\ \A r1, r2 \in ReaderIds :
          (FinishedOf(r1) # <<>> /\ FinishedOf(r2) # <<>>) =>
              /\ FinishedOf(r1)[1] = FinishedOf(r2)[1]
              /\ FinishedOf(r1)[1].ok = ok
              /\ FinishedOf(r1)[1].public_url = public_url

\* both readers have ended, each has yielded some of the lines
C31_Witness ==
    /\ rpc[1] = "ended" /\ rpc[2] = "ended"
    /\ wpc = "returned" /\ ok = PyTrue
    /\ DataLines(events[1]) # <<>>
    /\ DataLines(events[2]) # <<>>
    /\ q = <<>>


(***************************************************************************)
(* Properties of the Analysis record                                       *)
(***************************************************************************)
\* the Analysis record is in place, and only then (ended: the job is over)
AnalysisIffOk(ended) ==
    /\ ended => ((ok = PyTrue) <=> Len(analyses) = 1)
    /\ Len(analyses) <= 1
    /\ analyses # <<>> =>
          /\ upload_attempted /\ url_local # None
          /\ ok = PyTrue
          /\ analyses[1] = public_url
          /\ wpc \in {"set_done", "enq_done", "returned"}
    /\ (done /\ ok = PyTrue) => analyses # <<>>
    /\ \A r \in ReaderIds : \A i \in 1..Len(events[r]) :
          (IsFinished(events[r][i]) /\ events[r][i].ok = PyTrue) =>
              analyses = <<events[r][i].public_url>>

\* C32 (as claimed): an Analysis record exists for a job if and only if the
\* job ends (its worker thread has ended) with ok = True; it is created
\* after the upload returned and before done is set, at most once, with the
\* public_url of the finished event as json_url; no failed job creates one.
C32_AnalysisIffOk == AnalysisIffOk(WorkerEnded)


(***************************************************************************)
(* Properties of the totals of the report                                  *)
(***************************************************************************)
\* the sum of f(s[i]) over a sequence s
SumOver(s, f(_)) ==
    LET sum[i \in 0..Len(s)] == IF i = 0 THEN 0 ELSE sum[i - 1] + f(s[i])
    IN  sum[Len(s)]
CommitCountOf(a) == a.commit_count
InsertionsOf(a) == a.total_insertions
DeletionsOf(a) == a.total_deletions
NumCommitsOf(a) == Len(a.commits)
LogInsertions(c) == OrZero(c.insertions)
LogDeletions(c) == OrZero(c.deletions)

\* C33: in a written report of a non-empty window, each author's
\* commit_count is the length of the author's commit list, the commit_counts
\* add up to repo_summary.total_commits (counted in pass 1), and the
\* authors' total_insertions and total_deletions add up to the repository's
\* total_insertions and total_deletions; during pass 2 the buckets and the
\* repository totals agree on the commits visited so far.
C33_AuthorTotalsAddUp ==
    /\ (authors # <<>> \/ mpc \in {"pass2", "ci_totals"}) =>
          /\ SumOver(authors, NumCommitsOf) = cidx - 1
          /\ SumOver(authors, InsertionsOf) = repo_total_insertions
          /\ SumOver(authors, DeletionsOf) = repo_total_deletions
          /\ repo_total_insertions = SumOver(SubSeq(commits, 1, cidx - 1), LogInsertions)
          /\ repo_total_deletions = SumOver(SubSeq(commits, 1, cidx - 1), LogDeletions)
    /\ (written # <<>> /\ commits # <<>>) =>
          LET rep == written[1]
          IN  /\ \A i \in 1..Len(rep.authors) :
                    rep.authors[i].commit_count = Len(rep.authors[i].commits)
              /\ SumOver(rep.authors, CommitCountOf) = rep.repo_summary.total_commits
              /\ rep.repo_summary.total_commits = Len(commits)
              /\ SumOver(rep.authors, InsertionsOf) = rep.repo_summary.total_insertions
              /\ SumOver(rep.authors, DeletionsOf) = rep.repo_summary.total_deletions
              /\ rep.repo_summary.total_insertions = SumOver(commits, LogInsertions)
              /\ rep.repo_summary.total_deletions = SumOver(commits, LogDeletions)

\* a report with two authors, one commit each, and lines from both
C33_Witness ==
    /\ written # <<>>
    /\ Len(commits) = 2
    /\ Len(written[1].authors) = 2
    /\ written[1].repo_summary.total_insertions = 4
    /\ written[1].repo_summary.total_deletions = 2
    /\ written[1].authors[1].total_insertions # written[1].authors[2].total_insertions


C35_SameRepoName ==
    \A j \in JobIds :
        tpc[j] # "none" =>
            /\ job_args[j].repo.name = _repo_name_from_url(job_args[j].repo.url)
            /\ job_args[j].repo.name = Dest(j)

====
